---------------------------- MODULE Spec2Model ----------------------------
(***************************************************************************)
(* A model of the connection-lifecycle core of usrv-service-adapters:      *)
(*   - dial.Policy            (src/dial/policy.go)                         *)
(*   - adapters.Notifier      (src/amqp/amqp.go, lines 142-185)            *)
(*   - the amqp, redis and etcd service adapters                           *)
(*                            (src/service/amqp/amqp.go)                   *)
(*                                                                         *)
(* One adapter object is modelled at a time.  The fields every adapter has *)
(* (endpoint, connected, dialPolicy, closeNotifier) are shared variables;  *)
(* each specification (SpecNotifier, SpecAmqp, SpecRedis, SpecEtcd) moves  *)
(* only the variables of the object it is about.                           *)
(*                                                                         *)
(* Go channels handed to the notifier are unbuffered channels whose        *)
(* consumer is receiving: a send is recorded in the channel's vals, the    *)
(* values its consumer has received.  A send on a closed channel, a close  *)
(* of a closed channel and a nil dereference panic, which ends the         *)
(* program (crashed).                                                      *)
(***************************************************************************)
EXTENDS Integers, Sequences, FiniteSets, TLC

(***************************************************************************)
(* Bounds of the model.                                                    *)
(***************************************************************************)
\* Listener channels the consumers of an adapter own.
NumChans == 1
\* Registrations an adapter's notifier holds at most.
MaxListeners == 1
\* The same two bounds for the notifier checked on its own.
NumNotifierChans == 2
MaxNotifierListeners == 2
\* Backend connections (successful connects) over one run.
MaxConns == 1
\* Connection pools the redis adapter creates over one run.
MaxPools == 2
\* Goroutines calling Dial concurrently.
NumDialers == 2
\* Goroutines calling one policy at once.
NumCallers == 3
\* Options handed to one SetOptions call.
MaxOptions == 2
\* The largest maxAttempts handed to SetDialPolicy.
MaxAttemptsArg == 3
\* Dial is not started once the policy's attempt counter reached this value.
MaxCurAttempt == 4
\* The longest run of consecutive connect failures the backend is scripted for.
MaxFailures == 2
\* Width, in bits, the model gives the uint32 attempt counter.
CounterBits == 6
\* rand.Int63n(1 << a) is followed through all its values for a up to this;
\* for a larger a through the values below 2 ^ MaxDrawBits and the largest.
MaxDrawBits == 3
\* The largest a for which the model's integers hold 1 << a.
MaxShift == 29

(***************************************************************************)
(* Program constants.                                                      *)
(***************************************************************************)
Nil == "nil"
ErrConnectionClosed == "Connection closed"
ErrAlreadyConnected == "Already connected"
ErrTimeout == "Connection timeout"
\* The error the amqp driver reports for a failed connect or a lost connection.
DriverError == "driver error"
\* time.Millisecond and time.Second: a time.Duration is a count of nanoseconds.
Millisecond == 1000000
Second == 1000 * Millisecond
\* The retry interval used with Periodic: 10ms.
RetryInterval == 10 * Millisecond
\* The maxAttempts of the etcd adapter's default policy, and ExpBackoff's cap.
EtcdMaxAttempts == 10
ExpBackoffCap == 32

Chans == 1..NumChans
NotifierChans == 1..NumNotifierChans
ConnIds == 1..MaxConns
Endpoints == {"localhost:55672", "other:5672"}

VARIABLES
    dialPolicy,         \* the adapter's dial.Policy: [kind, maxAttempts, retry, curAttempt]
    listeners,          \* Notifier.listeners: the registered channels, in order
    chans,              \* each consumer channel: [vals, closed]
    endpoint,           \* the adapter's endpoint field
    connected,          \* the adapter's connected field
    conn,               \* Amqp.conn: 0 is nil, else a backend connection
    password,           \* Redis.password
    db,                 \* Redis.db
    connectionTimeout,  \* Redis.connectionTimeout, counted in seconds
    pool,               \* Redis.pool: 0 is nil, else a pool
    hosts,              \* Etcd.hosts
    backend,            \* the driver's connections, pools or client: their state
    failuresLeft,       \* connect attempts the backend will still fail
    call,               \* the call in progress (it holds the adapter lock), or,
                        \* with pc "idle", the last call that returned
    wd,                 \* the watchdog goroutine started for each connection
    crashed,            \* "none", or the panic that ended the program
    mutex,              \* the sync.Mutex of the adapter, or of the policy, seen
                        \* by concurrent callers: 0 is unlocked, else the
                        \* caller holding it
    dialers,            \* each concurrent caller of Dial: [pc, result], or of
                        \* the policy: [pc, op, tmp, value, wait, err]
    resetSeen           \* history: a listener got the reset signal and no Dial
                        \* was called or has connected since

vars == <<dialPolicy, listeners, chans, endpoint, connected, conn, password, db,
          connectionTimeout, pool, hosts, backend, failuresLeft, call, wd,
          crashed, mutex, dialers, resetSeen>>

Range(s) == {s[i] : i \in 1..Len(s)}

(***************************************************************************)
(* adapters.Notifier                                                       *)
(***************************************************************************)
NewChan == [vals |-> <<>>, closed |-> FALSE]

NewNotifier == <<>>

\* Notifier.Add: append the listener to the list.
Add(ls, listener) == Append(ls, listener)

\* A mutant of Notify: the error is emitted but the channel is left open.
NotifyNoClose(ch, l, err) ==
    IF err # Nil /\ ch[l].closed
    THEN [chans |-> ch, panic |-> "send on closed channel"]
    ELSE [chans |-> IF err # Nil THEN [ch EXCEPT ![l].vals = Append(@, err)] ELSE ch,
          panic |-> "none"]

\* The body of NotifyAll's loop for one listener: emit err if it is not nil,
\* then close the channel.
Notify(ch, l, err) ==
    IF err # Nil /\ ch[l].closed
    THEN [chans |-> ch, panic |-> "send on closed channel"]
    ELSE LET sent == IF err # Nil THEN [ch EXCEPT ![l].vals = Append(@, err)] ELSE ch
         IN  IF sent[l].closed
             THEN [chans |-> sent, panic |-> "close of closed channel"]
             ELSE [chans |-> [sent EXCEPT ![l].closed = TRUE], panic |-> "none"]

RECURSIVE NotifyLoop(_, _, _)
NotifyLoop(ls, ch, err) ==
    IF ls = <<>>
    THEN [chans |-> ch, panic |-> "none"]
    ELSE LET r == Notify(ch, Head(ls), err)
         IN  IF r.panic # "none" THEN r ELSE NotifyLoop(Tail(ls), r.chans, err)

\* Notifier.NotifyAll: notify every listener in list order, then empty the list.
\* A panic leaves the list as it was.
NotifyAll(ls, ch, err) ==
    LET r == NotifyLoop(ls, ch, err)
    IN  [listeners |-> IF r.panic = "none" THEN <<>> ELSE ls,
         chans     |-> r.chans,
         panic     |-> r.panic]

(***************************************************************************)
(* dial.Policy                                                             *)
(***************************************************************************)
CounterModulus == 2 ^ CounterBits

\* dial.Periodic: maxAttempts below 1 is raised to 1.
Periodic(maxAttempts, retry) ==
    [kind        |-> "Periodic",
     maxAttempts |-> IF maxAttempts < 1 THEN 1 ELSE maxAttempts,
     retry       |-> retry,
     curAttempt  |-> 0]

\* A mutant of PeriodicGenerator: the last allowed attempt is refused.
PeriodicGeneratorOffByOne(p, curAttempt) ==
    IF curAttempt >= p.maxAttempts
    THEN {[wait |-> 0, err |-> ErrTimeout]}
    ELSE {[wait |-> p.retry, err |-> Nil]}

\* A mutant of PeriodicGenerator: no attempt is refused.
PeriodicGeneratorUnlimited(p, curAttempt) == {[wait |-> p.retry, err |-> Nil]}

\* The retryGenerator closure of Periodic: the outcomes for attempt curAttempt.
PeriodicGenerator(p, curAttempt) ==
    IF curAttempt > p.maxAttempts
    THEN {[wait |-> 0, err |-> ErrTimeout]}
    ELSE {[wait |-> p.retry, err |-> Nil]}

\* A mutant of ExpBackoff: maxAttempts above 32 is kept.
ExpBackoffUncapped(maxAttempts, retryUnit) ==
    [kind        |-> "ExpBackoff",
     maxAttempts |-> IF maxAttempts < 1 THEN 1 ELSE maxAttempts,
     retry       |-> retryUnit,
     curAttempt  |-> 0]

\* dial.ExpBackoff: maxAttempts is brought into 1..32.
ExpBackoff(maxAttempts, retryUnit) ==
    [kind        |-> "ExpBackoff",
     maxAttempts |-> IF maxAttempts < 1 THEN 1
                     ELSE IF maxAttempts > ExpBackoffCap THEN ExpBackoffCap
                     ELSE maxAttempts,
     retry       |-> retryUnit,
     curAttempt  |-> 0]

\* rand.Int63n(1 << bits): the values in 0 .. 2^bits - 1 the model follows.
Int63n(bits) ==
    IF bits <= MaxDrawBits
    THEN 0..((2 ^ bits) - 1)
    ELSE (0..((2 ^ MaxDrawBits) - 1))
            \cup (IF bits <= MaxShift THEN {(2 ^ bits) - 1} ELSE {})

\* A mutant of ExpBackoffGenerator: the shift is one too long.
ExpBackoffGeneratorWide(p, curAttempt) ==
    IF curAttempt > p.maxAttempts
    THEN {[wait |-> 0, err |-> ErrTimeout]}
    ELSE {[wait |-> r, err |-> Nil] : r \in Int63n(curAttempt + 1)}

\* The retryGenerator closure of ExpBackoff: rand.Int63n(1 << curAttempt) is
\* returned as the duration; the retry unit does not enter it.
ExpBackoffGenerator(p, curAttempt) ==
    IF curAttempt > p.maxAttempts
    THEN {[wait |-> 0, err |-> ErrTimeout]}
    ELSE {[wait |-> r, err |-> Nil] : r \in Int63n(curAttempt)}

\* dialPolicyImpl.retryGenerator: the closure the policy was built with.
RetryGenerator(p, curAttempt) ==
    IF p.kind = "Periodic"
    THEN PeriodicGenerator(p, curAttempt)
    ELSE ExpBackoffGenerator(p, curAttempt)

\* A mutant of ResetAttempts: the counter is left as it is.
ResetAttemptsKeeps(p) == p

\* dialPolicyImpl.ResetAttempts
ResetAttempts(p) == [p EXCEPT !.curAttempt = 0]

\* dialPolicyImpl.CurAttempt
CurAttempt(p) == p.curAttempt

\* A mutant of NextRetry: a refused attempt is not counted.
NextRetryRefusedUncounted(p) ==
    LET n == (p.curAttempt + 1) % CounterModulus
    IN  {[policy |-> [p EXCEPT !.curAttempt = IF g.err = Nil THEN n ELSE p.curAttempt],
          wait |-> g.wait, err |-> g.err] : g \in RetryGenerator(p, n)}

\* dialPolicyImpl.NextRetry: increment the counter, then ask the generator.
\* The set of [policy, wait, err] outcomes.
NextRetry(p) ==
    LET n == (p.curAttempt + 1) % CounterModulus
    IN  {[policy |-> [p EXCEPT !.curAttempt = n], wait |-> g.wait, err |-> g.err] :
            g \in RetryGenerator(p, n)}

(***************************************************************************)
(* The notifier on its own: Add and NotifyAll called in any order.         *)
(***************************************************************************)
NoCall == [pc |-> "idle", op |-> "none"]

\* NewNotifier(), and channels the consumers made.
InitNotifier ==
    /\ dialPolicy = Periodic(1, RetryInterval)
    /\ listeners = NewNotifier
    /\ chans = [c \in NotifierChans |-> NewChan]
    /\ endpoint = ""
    /\ connected = FALSE
    /\ conn = 0
    /\ password = ""
    /\ db = 0
    /\ connectionTimeout = 0
    /\ pool = 0
    /\ hosts = <<>>
    /\ backend = <<>>
    /\ failuresLeft = 0
    /\ call = NoCall
    /\ wd = <<>>
    /\ crashed = "none"
    /\ mutex = 0
    /\ dialers = <<>>
    /\ resetSeen = FALSE

adapterVars == <<dialPolicy, endpoint, connected, conn, password, db,
                 connectionTimeout, pool, hosts, backend, failuresLeft, wd,
                 mutex, dialers, resetSeen>>

NotifierAdd(c) ==
    /\ crashed = "none"
    /\ Len(listeners) < MaxNotifierListeners
    /\ listeners' = Add(listeners, c)
    /\ call' = [pc |-> "idle", op |-> "Add", listener |-> c]
    /\ UNCHANGED <<chans, crashed>>
    /\ UNCHANGED adapterVars

NotifierNotifyAll(err) ==
    /\ crashed = "none"
    /\ LET r == NotifyAll(listeners, chans, err)
       IN  /\ listeners' = r.listeners
           /\ chans' = r.chans
           /\ crashed' = r.panic
           /\ call' = [pc |-> "idle", op |-> "NotifyAll", err |-> err,
                       listeners |-> listeners, chans |-> chans,
                       returned |-> r.panic = "none"]
    /\ UNCHANGED adapterVars

NextNotifier ==
    \/ \E c \in NotifierChans : NotifierAdd(c)
    \/ \E err \in {Nil, ErrConnectionClosed} : NotifierNotifyAll(err)

SpecNotifier == InitNotifier /\ [][NextNotifier]_vars

(***************************************************************************)
(* C1: when NotifyAll(err) returns, every listener that was registered at  *)
(* the call has received err exactly once (nothing when err is nil) and is *)
(* closed, the registry is empty, no other channel was touched, and with   *)
(* no listener registered nothing changed at all.                          *)
(***************************************************************************)
C1_NotifyAllDelivers ==
    (call.op = "NotifyAll" /\ call.returned) =>
        /\ listeners = <<>>
        /\ \A c \in Range(call.listeners) :
              /\ chans[c].closed
              /\ ~call.chans[c].closed
              /\ chans[c].vals = IF call.err # Nil
                                 THEN Append(call.chans[c].vals, call.err)
                                 ELSE call.chans[c].vals
        /\ \A c \in NotifierChans \ Range(call.listeners) : chans[c] = call.chans[c]
        /\ (call.listeners = <<>> => chans = call.chans)

\* NotifyAll returned after notifying two listeners with an error.
C1_Witness ==
    /\ call.op = "NotifyAll" /\ call.returned
    /\ call.err = ErrConnectionClosed
    /\ Cardinality(Range(call.listeners)) = 2
    /\ \A c \in Range(call.listeners) : chans[c].vals = <<ErrConnectionClosed>>

(***************************************************************************)
(* The backend driver (github.com/streadway/amqp), as the amqp adapter     *)
(* uses it.  A connection is "unused" (not made yet), "open", "closed"     *)
(* (closed by Connection.Close) or "lost" (shut down with an error).       *)
(***************************************************************************)
UnusedConns == {i \in ConnIds : backend[i] = "unused"}

NextConn == CHOOSE i \in UnusedConns : \A j \in UnusedConns : i <= j

\* The handle of a connection that never opened.
DeadConn == -1

\* amqp.Dial(endpoint), the outcomes: a connection and no error, or an error
\* with either nil or the handle of a connection that never opened.
Connect ==
    IF failuresLeft > 0
    THEN {[conn |-> c, err |-> DriverError] : c \in {0, DeadConn}}
    ELSE {[conn |-> NextConn, err |-> Nil]}

\* The state of the connection behind a handle.
ConnState(c) == IF c = DeadConn THEN "lost" ELSE backend[c]

\* Connection.Close: an open connection shuts down cleanly.
ConnClose(bk, c) == IF bk[c] = "open" THEN [bk EXCEPT ![c] = "closed"] ELSE bk

\* What a receive from the channel given to Connection.NotifyClose yields once
\* the connection has shut down: TRUE when an error value was received, FALSE
\* when the channel was closed without a value.  The driver sends the error
\* of an abrupt loss to the channels registered before the shutdown; on a
\* clean shutdown, and for a channel registered after any shutdown, it only
\* closes the channel.
CloseSignal(state, late) == state = "lost" /\ ~late

(***************************************************************************)
(* The amqp adapter (service/amqp).  Dial, Close and Config hold the       *)
(* adapter lock from their first step to their return: call is the call    *)
(* holding it.  NotifyClose and the watchdog take no adapter lock.         *)
(***************************************************************************)
Keys == {"endpoint", "unknown"}
\* The settings mappings handed to Config.
Settings ==
    {[k \in ks |-> IF k = "endpoint" THEN e ELSE "x"] : ks \in SUBSET Keys, e \in Endpoints}

otherAdapters == <<password, db, connectionTimeout, pool, hosts, mutex, dialers>>

\* New(options...) with an optional DialPolicy option.
InitAmqp ==
    /\ dialPolicy \in {Periodic(n, RetryInterval) : n \in 0..MaxAttemptsArg}
    /\ listeners = NewNotifier
    /\ chans = [c \in Chans |-> NewChan]
    /\ endpoint = "localhost:55672"
    /\ connected = FALSE
    /\ conn = 0
    /\ password = ""
    /\ db = 0
    /\ connectionTimeout = 1
    /\ pool = 0
    /\ hosts = <<>>
    /\ backend = [i \in ConnIds |-> "unused"]
    /\ failuresLeft = 0
    /\ call = NoCall
    /\ wd = [i \in ConnIds |-> [pc |-> "none"]]
    /\ crashed = "none"
    /\ mutex = 0
    /\ dialers = <<>>
    /\ resetSeen = FALSE

\* The error Dial returns when NextRetry fails (line 86).
DialError == ErrTimeout

\* A mutant of DialWhenConnected: the call is a benign success.
DialWhenConnectedBenign == Nil

\* What Dial returns when the adapter is connected (lines 69-71).
DialWhenConnected == ErrAlreadyConnected

\* What a returned Dial leaves in call.
DialReturn(result, start, attempts, waits) ==
    [pc |-> "idle", op |-> "Dial", result |-> result, fresh |-> start = 0,
     attempts |-> attempts, waits |-> waits]

\* Dial, lines 65-75: take the lock; if connected return ErrAlreadyConnected,
\* else call NextRetry (its results are overwritten) and enter the loop.
AmqpDial ==
    /\ crashed = "none"
    /\ call.pc = "idle"
    /\ CurAttempt(dialPolicy) < MaxCurAttempt
    /\ IF connected
       THEN /\ call' = DialReturn(DialWhenConnected, CurAttempt(dialPolicy), 0, <<>>)
            /\ UNCHANGED dialPolicy
       ELSE /\ UnusedConns # {}
            /\ \E r \in NextRetry(dialPolicy) :
                  /\ dialPolicy' = r.policy
                  /\ call' = [pc |-> "attempt", op |-> "Dial",
                              start |-> CurAttempt(dialPolicy),
                              attempts |-> 0, waits |-> <<>>]
    /\ resetSeen' = FALSE
    /\ UNCHANGED <<listeners, chans, endpoint, connected, conn, backend,
                   failuresLeft, wd, crashed>>
    /\ UNCHANGED otherAdapters

\* Dial, lines 77-99: one pass of the loop.  A successful connect sets
\* connected, resets the policy and starts the watchdog; a failed one asks
\* NextRetry and returns DialError or goes to sleep.
AmqpDialAttempt ==
    /\ crashed = "none"
    /\ call.pc = "attempt"
    /\ \E c \in Connect :
       LET n == call.attempts + 1
       IN  /\ conn' = c.conn
           /\ IF c.err = Nil
              THEN /\ backend' = [backend EXCEPT ![c.conn] = "open"]
                   /\ connected' = TRUE
                   /\ dialPolicy' = ResetAttempts(dialPolicy)
                   /\ wd' = [wd EXCEPT ![c.conn] = [pc |-> "start"]]
                   /\ call' = DialReturn(Nil, call.start, n, call.waits)
                   /\ resetSeen' = FALSE
                   /\ UNCHANGED failuresLeft
              ELSE /\ failuresLeft' = failuresLeft - 1
                   /\ \E r \in NextRetry(dialPolicy) :
                         /\ dialPolicy' = r.policy
                         /\ call' = IF r.err # Nil
                                    THEN DialReturn(DialError, call.start, n, call.waits)
                                    ELSE [call EXCEPT !.pc = "sleep",
                                                      !.attempts = n,
                                                      !.waits = Append(@, r.wait)]
                   /\ UNCHANGED <<backend, connected, wd, resetSeen>>
    /\ UNCHANGED <<listeners, chans, endpoint, crashed>>
    /\ UNCHANGED otherAdapters

\* Dial, line 89: the wait is over; the lock was held throughout.
AmqpDialWake ==
    /\ crashed = "none"
    /\ call.pc = "sleep"
    /\ call' = [call EXCEPT !.pc = "attempt"]
    /\ UNCHANGED <<dialPolicy, listeners, chans, endpoint, connected, conn, backend,
                   failuresLeft, wd, crashed, resetSeen>>
    /\ UNCHANGED otherAdapters

\* Close, lines 104-112: take the lock; return if not connected, else close
\* the backend connection.
AmqpClose ==
    /\ crashed = "none"
    /\ call.pc = "idle"
    /\ IF ~connected
       THEN /\ call' = [pc |-> "idle", op |-> "Close", wasConnected |-> FALSE]
            /\ UNCHANGED <<backend, crashed>>
       ELSE IF conn = 0
       THEN /\ crashed' = "nil dereference"
            /\ UNCHANGED <<backend, call>>
       ELSE /\ backend' = ConnClose(backend, conn)
            /\ call' = [pc |-> "notify", op |-> "Close", listeners |-> listeners]
            /\ UNCHANGED crashed
    /\ UNCHANGED <<dialPolicy, listeners, chans, endpoint, connected, conn,
                   failuresLeft, wd, resetSeen>>
    /\ UNCHANGED otherAdapters

\* Close, lines 113-115: notify the listeners of the shutdown, clear the
\* handle and the flag, release the lock.
AmqpCloseNotify ==
    /\ crashed = "none"
    /\ call.pc = "notify" /\ call.op = "Close"
    /\ LET r == NotifyAll(listeners, chans, ErrConnectionClosed)
       IN  /\ listeners' = r.listeners
           /\ chans' = r.chans
           /\ crashed' = r.panic
           /\ IF r.panic = "none"
              THEN /\ conn' = 0
                   /\ connected' = FALSE
                   /\ call' = [pc |-> "idle", op |-> "Close", wasConnected |-> TRUE]
              ELSE UNCHANGED <<conn, connected, call>>
    /\ UNCHANGED <<dialPolicy, endpoint, backend, failuresLeft, wd, resetSeen>>
    /\ UNCHANGED otherAdapters

\* A mutant of NeedsReset: every call of Config asks for a reset.
NeedsResetAlways(params) == TRUE

\* Config, lines 140-146: needsReset is set when the mapping has an endpoint.
NeedsReset(params) == "endpoint" \in DOMAIN params

\* Config, lines 138-152: take the lock, store the endpoint if the mapping
\* has one; a stored endpoint asks for a reset, which closes the backend
\* connection of a connected adapter.
AmqpConfig(params) ==
    /\ crashed = "none"
    /\ call.pc = "idle"
    /\ LET exists == "endpoint" \in DOMAIN params
           needsReset == NeedsReset(params)
       IN  /\ endpoint' = IF exists THEN params["endpoint"] ELSE endpoint
           /\ IF needsReset /\ connected
              THEN IF conn = 0
                   THEN /\ crashed' = "nil dereference"
                        /\ UNCHANGED <<backend, call>>
                   ELSE /\ backend' = ConnClose(backend, conn)
                        /\ call' = [pc |-> "notify", op |-> "Config",
                                    changed |-> endpoint' # endpoint,
                                    listeners |-> listeners]
                        /\ UNCHANGED crashed
              ELSE /\ call' = [pc |-> "idle", op |-> "Config", result |-> Nil,
                               changed |-> endpoint' # endpoint,
                               wasConnected |-> connected]
                   /\ UNCHANGED <<backend, crashed>>
    /\ UNCHANGED <<dialPolicy, listeners, chans, connected, conn, failuresLeft, wd,
                   resetSeen>>
    /\ UNCHANGED otherAdapters

\* Config, lines 153-159: send the reset signal, clear the handle and the
\* flag, release the lock.
AmqpConfigNotify ==
    /\ crashed = "none"
    /\ call.pc = "notify" /\ call.op = "Config"
    /\ LET r == NotifyAll(listeners, chans, Nil)
       IN  /\ listeners' = r.listeners
           /\ chans' = r.chans
           /\ crashed' = r.panic
           /\ resetSeen' = (resetSeen \/ listeners # <<>>)
           /\ IF r.panic = "none"
              THEN /\ conn' = 0
                   /\ connected' = FALSE
                   /\ call' = [pc |-> "idle", op |-> "Config", result |-> Nil,
                               changed |-> call.changed, wasConnected |-> TRUE]
              ELSE UNCHANGED <<conn, connected, call>>
    /\ UNCHANGED <<dialPolicy, endpoint, backend, failuresLeft, wd>>
    /\ UNCHANGED otherAdapters

\* A mutant of WhenDisconnected: the caller is told nothing went wrong.
WhenDisconnectedBenign == Nil

\* What NewChannel (lines 167-169) and GetConnection (lines 446-449) return
\* when the adapter is not connected.
WhenDisconnected == ErrConnectionClosed

\* NewChannel: take the lock; return (nil, ErrConnectionClosed) when not
\* connected, else ask the connection s.conn for a channel.  used is the
\* handle the call went to, 0 when it went to none.
AmqpNewChannel ==
    /\ crashed = "none"
    /\ call.pc = "idle"
    /\ IF ~connected
       THEN /\ call' = [pc |-> "idle", op |-> "NewChannel", channel |-> FALSE,
                        result |-> WhenDisconnected, used |-> 0]
            /\ UNCHANGED crashed
       ELSE IF conn = 0
       THEN /\ crashed' = "nil dereference"
            /\ UNCHANGED call
       ELSE /\ call' = [pc |-> "idle", op |-> "NewChannel",
                        channel |-> ConnState(conn) = "open",
                        result |-> IF ConnState(conn) = "open" THEN Nil
                                   ELSE DriverError,
                        used |-> conn]
            /\ UNCHANGED crashed
    /\ UNCHANGED <<dialPolicy, listeners, chans, endpoint, connected, conn, backend,
                   failuresLeft, wd, resetSeen>>
    /\ UNCHANGED otherAdapters

\* The channels a consumer may hand to NotifyClose: one used before, or the
\* first of those never used (which fresh channel it makes does not matter).
FreshChans == {c \in Chans : chans[c] = NewChan /\ c \notin Range(listeners)}

Registrable == {c \in Chans : c \notin FreshChans \/ \A d \in FreshChans : c <= d}

\* NotifyClose: register the listener; no adapter lock is taken.
AmqpNotifyClose(c) ==
    /\ crashed = "none"
    /\ Len(listeners) < MaxListeners
    /\ c \in Registrable
    /\ listeners' = Add(listeners, c)
    /\ UNCHANGED <<dialPolicy, chans, endpoint, connected, conn, backend,
                   failuresLeft, call, wd, crashed, resetSeen>>
    /\ UNCHANGED otherAdapters

\* The signal the watchdog hands to NotifyAll (lines 180-188): the second
\* value of the receive is read as "normal shutdown".
WatchdogSignal(normalShutdown) == IF normalShutdown THEN ErrConnectionClosed ELSE Nil

\* watchdog, lines 176-177: read s.conn, without the lock, and subscribe to
\* its close signal.
WatchdogStart(w) ==
    /\ crashed = "none"
    /\ wd[w].pc = "start"
    /\ IF conn = 0
       THEN /\ crashed' = "nil dereference"
            /\ UNCHANGED wd
       ELSE /\ wd' = [wd EXCEPT ![w] = [pc |-> "waiting", sub |-> conn,
                                        late |-> ConnState(conn) # "open"]]
            /\ UNCHANGED crashed
    /\ UNCHANGED <<dialPolicy, listeners, chans, endpoint, connected, conn, backend,
                   failuresLeft, call, resetSeen>>
    /\ UNCHANGED otherAdapters

\* A mutant of WatchdogFire: after notifying, the watchdog tries to connect
\* again.
WatchdogFireRedials(w) ==
    /\ crashed = "none"
    /\ wd[w].pc = "waiting"
    /\ ConnState(wd[w].sub) # "open"
    /\ LET ok  == CloseSignal(ConnState(wd[w].sub), wd[w].late)
           err == WatchdogSignal(ok)
           r   == NotifyAll(listeners, chans, err)
       IN  /\ listeners' = r.listeners
           /\ chans' = r.chans
           /\ crashed' = r.panic
           /\ resetSeen' = (resetSeen \/ (err = Nil /\ listeners # <<>>))
           /\ wd' = [wd EXCEPT ![w] = [pc |-> "done", sent |-> err,
                                       sub |-> wd[w].sub]]
    /\ failuresLeft' = IF failuresLeft > 0 THEN failuresLeft - 1 ELSE failuresLeft
    /\ UNCHANGED <<dialPolicy, endpoint, connected, conn, backend, call>>
    /\ UNCHANGED otherAdapters

\* watchdog, lines 179-189: the close signal fires; call NotifyAll and end.
WatchdogFire(w) ==
    /\ crashed = "none"
    /\ wd[w].pc = "waiting"
    /\ ConnState(wd[w].sub) # "open"
    /\ LET ok  == CloseSignal(ConnState(wd[w].sub), wd[w].late)
           err == WatchdogSignal(ok)
           r   == NotifyAll(listeners, chans, err)
       IN  /\ listeners' = r.listeners
           /\ chans' = r.chans
           /\ crashed' = r.panic
           /\ resetSeen' = (resetSeen \/ (err = Nil /\ listeners # <<>>))
           /\ wd' = [wd EXCEPT ![w] = [pc |-> "done", sent |-> err,
                                       sub |-> wd[w].sub]]
    /\ UNCHANGED <<dialPolicy, endpoint, connected, conn, backend, failuresLeft, call>>
    /\ UNCHANGED otherAdapters

\* The backend loses an open connection.
BackendLoss(c) ==
    /\ crashed = "none"
    /\ backend[c] = "open"
    /\ backend' = [backend EXCEPT ![c] = "lost"]
    /\ UNCHANGED <<dialPolicy, listeners, chans, endpoint, connected, conn,
                   failuresLeft, call, wd, crashed, resetSeen>>
    /\ UNCHANGED otherAdapters

\* The backend becomes unreachable for the next n connect attempts.
BackendDown(n) ==
    /\ crashed = "none"
    /\ call.pc = "idle"
    /\ ~connected
    /\ failuresLeft = 0
    /\ failuresLeft' = n
    /\ UNCHANGED <<dialPolicy, listeners, chans, endpoint, connected, conn, backend,
                   call, wd, crashed, resetSeen>>
    /\ UNCHANGED otherAdapters

NextAmqp ==
    \/ AmqpDial
    \/ AmqpDialAttempt
    \/ AmqpDialWake
    \/ AmqpClose
    \/ AmqpCloseNotify
    \/ \E params \in Settings : AmqpConfig(params)
    \/ AmqpConfigNotify
    \/ AmqpNewChannel
    \/ \E c \in Chans : AmqpNotifyClose(c)
    \/ \E w \in ConnIds : WatchdogStart(w)
    \/ \E w \in ConnIds : WatchdogFire(w)
    \/ \E c \in ConnIds : BackendLoss(c)
    \/ \E n \in 1..MaxFailures : BackendDown(n)

SpecAmqp == InitAmqp /\ [][NextAmqp]_vars

(***************************************************************************)
(* C2: when Close on a connected amqp adapter returns, every listener that *)
(* was registered when Close was invoked has received ErrConnectionClosed  *)
(* and been closed (never closed without a value, the reset signal),       *)
(* whatever the watchdog did meanwhile, and the adapter has                *)
(* connected = false and a nil connection handle.                          *)
(***************************************************************************)
C2_CloseDeliversShutdown ==
    [][(AmqpCloseNotify /\ call'.pc = "idle") =>
          /\ \A c \in Range(call.listeners) :
                /\ chans'[c].closed
                /\ chans'[c].vals = <<ErrConnectionClosed>>
          /\ ~connected'
          /\ conn' = 0]_vars

\* A Config call returns at this step.
AmqpConfigReturns ==
    /\ \/ \E params \in Settings : AmqpConfig(params)
       \/ AmqpConfigNotify
    /\ call'.pc = "idle"

(***************************************************************************)
(* C4: when Config returns on an adapter that was connected and the        *)
(* mapping changed no recognized setting, the adapter is still connected   *)
(* with the same connection handle and no listener was notified.           *)
(***************************************************************************)
C4_UnchangedConfigKeepsConnection ==
    [][(AmqpConfigReturns /\ call'.wasConnected /\ ~call'.changed) =>
          /\ connected'
          /\ conn' = conn /\ conn' # 0
          /\ chans' = chans
          /\ listeners' = listeners]_vars

(***************************************************************************)
(* C5: a Dial called after a listener observed the reset signal (and no    *)
(* Dial was called since) goes on to a backend connect attempt; it does    *)
(* not return the already-connected condition.                             *)
(***************************************************************************)
C5_DialAfterResetConnects ==
    [][(AmqpDial /\ resetSeen) =>
          /\ call'.pc = "attempt"
          /\ call' # DialReturn(ErrAlreadyConnected, CurAttempt(dialPolicy), 0, <<>>)]_vars

(***************************************************************************)
(* C6: when the close signal fires, the watchdog calls NotifyAll once and  *)
(* ends; it hands NotifyAll nil (reset) when the signal yielded an error   *)
(* value (abrupt loss) and ErrConnectionClosed when the signal was closed  *)
(* without a value (clean shutdown).                                       *)
(***************************************************************************)
C6_WatchdogPolarity ==
    [][\A w \in ConnIds :
          WatchdogFire(w) =>
             /\ wd'[w].pc = "done"
             /\ wd'[w].sent = IF CloseSignal(ConnState(wd[w].sub), wd[w].late)
                              THEN Nil
                              ELSE ErrConnectionClosed]_vars

\* The Dial in progress returns at this step; k connect attempts fail before
\* the backend accepts one.
DialReturnsAfter(k) ==
    /\ AmqpDialAttempt
    /\ call'.pc = "idle"
    /\ call'.fresh
    /\ failuresLeft + call.attempts = k

DialConnectedAfter(attempts, waits) ==
    /\ call'.result = Nil
    /\ connected'
    /\ call'.attempts = attempts
    /\ call'.waits = waits

(***************************************************************************)
(* C9, as the specification states it: a Dial that starts with the attempt *)
(* counter at 0 under Periodic(1, 10ms), against a backend that fails      *)
(* twice and then succeeds, returns success after three connect attempts   *)
(* and exactly two waits of 10ms.                                          *)
(***************************************************************************)
C9_Periodic1TwoWaits ==
    [][(DialReturnsAfter(2) /\ dialPolicy.maxAttempts = 1 /\ dialPolicy.retry = RetryInterval) =>
          DialConnectedAfter(3, <<RetryInterval, RetryInterval>>)]_vars

(***************************************************************************)
(* C9, amended: under Periodic(3, 10ms) such a Dial returns success after  *)
(* three connect attempts and exactly two waits of 10ms; under             *)
(* Periodic(1, 10ms) it returns the timeout after the first failed attempt *)
(* without waiting, and the adapter stays disconnected.                    *)
(***************************************************************************)
C9_Periodic3TwoWaits ==
    [][/\ (DialReturnsAfter(2) /\ dialPolicy.maxAttempts = 3 /\ dialPolicy.retry = RetryInterval) =>
             DialConnectedAfter(3, <<RetryInterval, RetryInterval>>)
       /\ (DialReturnsAfter(2) /\ dialPolicy.maxAttempts = 1) =>
             /\ call'.result = ErrTimeout
             /\ ~connected'
             /\ call'.attempts = 1
             /\ call'.waits = <<>>]_vars

\* A Dial under Periodic(3, 10ms) connected at its third attempt.
C9_Witness ==
    /\ call.pc = "idle" /\ call.op = "Dial" /\ call.fresh
    /\ call.result = Nil
    /\ call.attempts = 3
    /\ call.waits = <<RetryInterval, RetryInterval>>
    /\ dialPolicy.maxAttempts = 3
    /\ connected

\* NextRetry, called at this step, reported exhaustion.
Exhausted ==
    \A g \in RetryGenerator(dialPolicy, dialPolicy'.curAttempt) : g.err # Nil

(***************************************************************************)
(* C10: a Dial called on a disconnected amqp adapter returns an error only *)
(* at a failed connect attempt after which NextRetry reported exhaustion;  *)
(* the error is ErrTimeout; a failed attempt before exhaustion makes Dial  *)
(* sleep and try again; and a Dial that does not connect leaves the flag   *)
(* false, the handle nil, and the watchdogs, the listeners and their       *)
(* channels as they were.                                                  *)
(***************************************************************************)
C10_DialErrorIsTimeout ==
    [][/\ (AmqpDial /\ ~connected) => call'.pc = "attempt"
       /\ (AmqpDialAttempt /\ call'.pc = "idle" /\ call'.result # Nil) =>
             /\ call'.result = ErrTimeout
             /\ Exhausted
       /\ (AmqpDialAttempt /\ failuresLeft > 0 /\ ~Exhausted) => call'.pc = "sleep"
       /\ ((AmqpDial \/ AmqpDialWake \/ AmqpDialAttempt) /\ ~connected') =>
             /\ UNCHANGED <<wd, listeners, chans, connected>>
             /\ (call'.pc = "idle" => conn' = 0)]_vars

(***************************************************************************)
(* The redis adapter (service/redis).  Dial, Close and Config run from     *)
(* start to end under the adapter lock, so each is one step.  backend maps *)
(* each pool to "unused", "open" or "closed".                              *)
(***************************************************************************)
\* Texts are sequences of characters.
Digits == <<"0", "1", "2", "3", "4", "5", "6", "7", "8", "9">>

DigitValue(ch) == (CHOOSE i \in 1..Len(Digits) : Digits[i] = ch) - 1

RECURSIVE ParseDigits(_, _)
ParseDigits(s, acc) ==
    IF s = <<>> THEN acc ELSE ParseDigits(Tail(s), acc * Len(Digits) + DigitValue(Head(s)))

\* strconv.Atoi: an optional sign and at least one decimal digit, else an error.
Atoi(s) ==
    LET signed == s # <<>> /\ Head(s) \in {"+", "-"}
        body   == IF signed THEN Tail(s) ELSE s
        bad    == body = <<>> \/ \E i \in 1..Len(body) : body[i] \notin Range(Digits)
        v      == IF bad THEN 0 ELSE ParseDigits(body, 0)
    IN  [val |-> IF signed /\ Head(s) = "-" THEN 0 - v ELSE v, err |-> bad]

PoolIds == 1..MaxPools
RedisEndpoints == {"localhost:3679", "other:6379"}
Passwords == {"", "secret"}
\* The texts handed to Config for db and connTimeout.
NumberTexts == {<<"1", "2">>, <<"-", "1">>, <<"1", "x">>}
RedisKeys == {"endpoint", "password", "db", "connTimeout"}

\* The settings mappings handed to the redis Config.
RedisSettings ==
    {[k \in ks |-> CASE k = "endpoint" -> e
                     [] k = "password" -> p
                     [] k = "db" -> d
                     [] k = "connTimeout" -> t] :
        ks \in SUBSET RedisKeys, e \in RedisEndpoints, p \in Passwords,
        d \in NumberTexts, t \in NumberTexts}

redisOther == <<conn, hosts, failuresLeft, wd, mutex, dialers, resetSeen>>

\* The Adapter built by init().
InitRedis ==
    /\ dialPolicy = Periodic(1, Second)
    /\ listeners = NewNotifier
    /\ chans = [c \in Chans |-> NewChan]
    /\ endpoint = "localhost:3679"
    /\ connected = FALSE
    /\ conn = 0
    /\ password = ""
    /\ db = 0
    /\ connectionTimeout = 1
    /\ pool = 0
    /\ hosts = <<>>
    /\ backend = [i \in PoolIds |-> "unused"]
    /\ failuresLeft = 0
    /\ call = NoCall
    /\ wd = <<>>
    /\ crashed = "none"
    /\ mutex = 0
    /\ dialers = <<>>
    /\ resetSeen = FALSE

UnusedPools == {i \in PoolIds : backend[i] = "unused"}

\* setupPool: a new pool replaces s.pool (the old one is not closed), the
\* flag is set and the policy reset.
setupPool ==
    LET new == CHOOSE i \in UnusedPools : \A j \in UnusedPools : i <= j
    IN  [pool       |-> new,
         backend    |-> [backend EXCEPT ![new] = "open"],
         connected  |-> TRUE,
         dialPolicy |-> ResetAttempts(dialPolicy)]

RedisDial ==
    /\ crashed = "none"
    /\ call.pc = "idle"
    /\ IF connected
       THEN /\ call' = [pc |-> "idle", op |-> "Dial", result |-> ErrAlreadyConnected]
            /\ UNCHANGED <<pool, backend, connected, dialPolicy>>
       ELSE /\ UnusedPools # {}
            /\ LET r == setupPool
               IN  /\ pool' = r.pool
                   /\ backend' = r.backend
                   /\ connected' = r.connected
                   /\ dialPolicy' = r.dialPolicy
            /\ call' = [pc |-> "idle", op |-> "Dial", result |-> Nil]
    /\ UNCHANGED <<listeners, chans, endpoint, password, db, connectionTimeout, crashed>>
    /\ UNCHANGED redisOther

\* Close: nothing when not connected; else notify the listeners of the
\* shutdown, close the pool and clear the flag.
RedisClose ==
    /\ crashed = "none"
    /\ call.pc = "idle"
    /\ IF ~connected
       THEN /\ call' = [pc |-> "idle", op |-> "Close", wasConnected |-> FALSE]
            /\ UNCHANGED <<listeners, chans, crashed, backend, connected>>
       ELSE LET r == NotifyAll(listeners, chans, ErrConnectionClosed)
            IN  /\ listeners' = r.listeners
                /\ chans' = r.chans
                /\ crashed' = r.panic
                /\ IF r.panic = "none"
                   THEN /\ backend' = [backend EXCEPT ![pool] = "closed"]
                        /\ connected' = FALSE
                        /\ call' = [pc |-> "idle", op |-> "Close", wasConnected |-> TRUE]
                   ELSE UNCHANGED <<backend, connected, call>>
    /\ UNCHANGED <<dialPolicy, endpoint, password, db, connectionTimeout, pool>>
    /\ UNCHANGED redisOther

RedisNotifyClose(c) ==
    /\ crashed = "none"
    /\ Len(listeners) < MaxListeners
    /\ c \in Registrable
    /\ listeners' = Add(listeners, c)
    /\ UNCHANGED <<dialPolicy, chans, endpoint, connected, password, db,
                   connectionTimeout, pool, backend, call, crashed>>
    /\ UNCHANGED redisOther

InvalidDb == "invalid value for setting 'db'"
InvalidConnTimeout == "invalid value for setting 'connTimeout'"

\* Config: the keys are scanned in the order endpoint, password, db,
\* connTimeout and each value is stored as it is scanned; a db or connTimeout
\* that Atoi rejects returns the error at once.  When a key was present the
\* pool is set up again and, the flag being set by then, the listeners get
\* the reset signal.
RedisConfig(params) ==
    /\ crashed = "none"
    /\ call.pc = "idle"
    /\ LET has(k) == k \in DOMAIN params
           dbR    == Atoi(params["db"])
           toR    == Atoi(params["connTimeout"])
           dbErr  == has("db") /\ dbR.err
           toErr  == ~dbErr /\ has("connTimeout") /\ toR.err
           needsReset == has("endpoint") \/ has("password") \/ has("db")
                            \/ has("connTimeout")
           result == IF dbErr THEN InvalidDb
                     ELSE IF toErr THEN InvalidConnTimeout ELSE Nil
           done(res) == [pc |-> "idle", op |-> "Config", result |-> res,
                         changed |-> <<endpoint', password', db', connectionTimeout'>>
                                       # <<endpoint, password, db, connectionTimeout>>,
                         wasConnected |-> connected]
       IN  /\ endpoint' = IF has("endpoint") THEN params["endpoint"] ELSE endpoint
           /\ password' = IF has("password") THEN params["password"] ELSE password
           /\ db' = IF has("db") /\ ~dbErr THEN dbR.val ELSE db
           /\ connectionTimeout' = IF ~dbErr /\ has("connTimeout") /\ ~toErr
                                   THEN toR.val
                                   ELSE connectionTimeout
           /\ IF result # Nil \/ ~needsReset
              THEN /\ call' = done(result)
                   /\ UNCHANGED <<pool, backend, connected, dialPolicy, listeners,
                                  chans, crashed>>
              ELSE /\ UnusedPools # {}
                   /\ LET p == setupPool
                          r == IF p.connected
                               THEN NotifyAll(listeners, chans, Nil)
                               ELSE [listeners |-> listeners, chans |-> chans,
                                     panic |-> "none"]
                      IN  /\ pool' = p.pool
                          /\ backend' = p.backend
                          /\ connected' = p.connected
                          /\ dialPolicy' = p.dialPolicy
                          /\ listeners' = r.listeners
                          /\ chans' = r.chans
                          /\ crashed' = r.panic
                          /\ call' = IF r.panic = "none" THEN done(Nil) ELSE call
    /\ UNCHANGED redisOther

NextRedis ==
    \/ RedisDial
    \/ RedisClose
    \/ \E c \in Chans : RedisNotifyClose(c)
    \/ \E params \in RedisSettings : RedisConfig(params)

SpecRedis == InitRedis /\ [][NextRedis]_vars

(***************************************************************************)
(* C3: when Config returns success on an adapter that was connected and a  *)
(* recognized setting changed, the adapter is disconnected, the registry   *)
(* is empty and every listener that was registered has been closed without *)
(* receiving a value.                                                      *)
(***************************************************************************)
C3_ChangedConfigDisconnects ==
    [][\A params \in RedisSettings :
          (RedisConfig(params) /\ connected /\ crashed' = "none"
              /\ call'.result = Nil /\ call'.changed) =>
             /\ ~connected'
             /\ listeners' = <<>>
             /\ \A c \in Range(listeners) :
                   chans'[c] = [vals |-> chans[c].vals, closed |-> TRUE]]_vars

\* The mapping has a db or connTimeout value that Atoi rejects.
Malformed(params) ==
    \E k \in {"db", "connTimeout"} : k \in DOMAIN params /\ Atoi(params[k]).err

(***************************************************************************)
(* C8: a redis Config whose mapping has a db or connTimeout value that is  *)
(* not a number returns an error and leaves endpoint, password, db,        *)
(* connectionTimeout, the connected flag and the pool as they were.        *)
(***************************************************************************)
C8_MalformedConfigChangesNothing ==
    [][\A params \in RedisSettings :
          (RedisConfig(params) /\ Malformed(params)) =>
             /\ call'.result # Nil
             /\ UNCHANGED <<endpoint, password, db, connectionTimeout, connected, pool>>]_vars

(***************************************************************************)
(* The etcd adapter (service/etcd).  Dial holds the adapter lock from its  *)
(* first step to its return; Close and Config are one step each.  backend  *)
(* is the go-etcd client: the cluster it was last given successfully and   *)
(* whether Client.Close was called on it.                                  *)
(***************************************************************************)
\* strings.Split(s, sep) for a one-character separator.
RECURSIVE SplitFrom(_, _, _)
SplitFrom(rest, sep, cur) ==
    IF rest = <<>>
    THEN <<cur>>
    ELSE IF Head(rest) = sep
         THEN <<cur>> \o SplitFrom(Tail(rest), sep, <<>>)
         ELSE SplitFrom(Tail(rest), sep, Append(cur, Head(rest)))

Split(s, sep) == SplitFrom(s, sep, <<>>)

\* The texts handed to Config for hosts.
HostsTexts == {<<>>, <<"a">>, <<"a", ",", "b">>}
EtcdKeys == {"hosts", "unknown"}

\* The settings mappings handed to the etcd Config.
EtcdSettings ==
    {[k \in ks |-> IF k = "hosts" THEN h ELSE <<"x">>] :
        ks \in SUBSET EtcdKeys, h \in HostsTexts}

etcdOther == <<endpoint, conn, password, db, connectionTimeout, pool, wd, mutex,
               dialers, resetSeen>>

NoHosts == "No etcd hosts defined"

\* The Adapter variable's initial value, with an optional DialPolicy option.
InitEtcd ==
    /\ dialPolicy \in {ExpBackoff(n, Millisecond) :
                          n \in (1..MaxAttemptsArg) \cup {EtcdMaxAttempts}}
    /\ listeners = NewNotifier
    /\ chans = [c \in Chans |-> NewChan]
    /\ endpoint = ""
    /\ connected = FALSE
    /\ conn = 0
    /\ password = ""
    /\ db = 0
    /\ connectionTimeout = 0
    /\ pool = 0
    /\ hosts = <<>>
    /\ backend = [cluster |-> <<>>, closed |-> FALSE]
    /\ failuresLeft = 0
    /\ call = NoCall
    /\ wd = <<>>
    /\ crashed = "none"
    /\ mutex = 0
    /\ dialers = <<>>
    /\ resetSeen = FALSE

\* Client.SetCluster(hosts): FALSE, or TRUE with the cluster replaced.
SetCluster(h) ==
    IF failuresLeft > 0
    THEN [ok |-> FALSE, backend |-> backend, failuresLeft |-> failuresLeft - 1]
    ELSE [ok |-> TRUE, backend |-> [backend EXCEPT !.cluster = h],
          failuresLeft |-> failuresLeft]

\* Dial, lines 516-532: return nil when connected and an error when no host
\* is configured; else reset the policy, call NextRetry (its results are
\* overwritten) and enter the loop.
EtcdDial ==
    /\ crashed = "none"
    /\ call.pc = "idle"
    /\ IF connected
       THEN /\ call' = DialReturn(Nil, 0, 0, <<>>)
            /\ UNCHANGED dialPolicy
       ELSE IF Len(hosts) = 0
       THEN /\ call' = DialReturn(NoHosts, 0, 0, <<>>)
            /\ UNCHANGED dialPolicy
       ELSE \E r \in NextRetry(ResetAttempts(dialPolicy)) :
               /\ dialPolicy' = r.policy
               /\ call' = [pc |-> "attempt", op |-> "Dial", start |-> 0,
                           attempts |-> 0, waits |-> <<>>]
    /\ UNCHANGED <<listeners, chans, connected, hosts, backend, failuresLeft, crashed>>
    /\ UNCHANGED etcdOther

\* Dial, lines 535-552: one pass of the loop.
EtcdDialAttempt ==
    /\ crashed = "none"
    /\ call.pc = "attempt"
    /\ LET c == SetCluster(hosts)
           n == call.attempts + 1
       IN  /\ backend' = c.backend
           /\ failuresLeft' = c.failuresLeft
           /\ IF c.ok
              THEN /\ connected' = TRUE
                   /\ dialPolicy' = ResetAttempts(dialPolicy)
                   /\ call' = DialReturn(Nil, call.start, n, call.waits)
              ELSE /\ \E r \in NextRetry(dialPolicy) :
                         /\ dialPolicy' = r.policy
                         /\ call' = IF r.err # Nil
                                    THEN DialReturn(ErrTimeout, call.start, n, call.waits)
                                    ELSE [call EXCEPT !.pc = "sleep",
                                                      !.attempts = n,
                                                      !.waits = Append(@, r.wait)]
                   /\ UNCHANGED connected
    /\ UNCHANGED <<listeners, chans, hosts, crashed>>
    /\ UNCHANGED etcdOther

\* Dial, line 546: the wait is over.
EtcdDialWake ==
    /\ crashed = "none"
    /\ call.pc = "sleep"
    /\ call' = [call EXCEPT !.pc = "attempt"]
    /\ UNCHANGED <<dialPolicy, listeners, chans, connected, hosts, backend,
                   failuresLeft, crashed>>
    /\ UNCHANGED etcdOther

\* Close: close the client, notify the listeners of the shutdown and clear
\* the flag; the flag is not looked at.
EtcdClose ==
    /\ crashed = "none"
    /\ call.pc = "idle"
    /\ LET r == NotifyAll(listeners, chans, ErrConnectionClosed)
       IN  /\ backend' = [backend EXCEPT !.closed = TRUE]
           /\ listeners' = r.listeners
           /\ chans' = r.chans
           /\ crashed' = r.panic
           /\ IF r.panic = "none"
              THEN /\ connected' = FALSE
                   /\ call' = [pc |-> "idle", op |-> "Close", wasConnected |-> connected]
              ELSE UNCHANGED <<connected, call>>
    /\ UNCHANGED <<dialPolicy, hosts, failuresLeft>>
    /\ UNCHANGED etcdOther

EtcdNotifyClose(c) ==
    /\ crashed = "none"
    /\ Len(listeners) < MaxListeners
    /\ c \in Registrable
    /\ listeners' = Add(listeners, c)
    /\ UNCHANGED <<dialPolicy, chans, connected, hosts, backend, failuresLeft,
                   call, crashed>>
    /\ UNCHANGED etcdOther

\* Config: a hosts value is split at the commas and stored, the client is
\* given the new cluster and the listeners get the reset signal; the flag is
\* neither looked at nor changed.
EtcdConfig(params) ==
    /\ crashed = "none"
    /\ call.pc = "idle"
    /\ LET exists == "hosts" \in DOMAIN params
           needsReset == exists
           newHosts == IF exists THEN Split(params["hosts"], ",") ELSE hosts
           c == SetCluster(newHosts)
           r == NotifyAll(listeners, chans, Nil)
           done == [pc |-> "idle", op |-> "Config", result |-> Nil,
                    changed |-> newHosts # hosts, wasConnected |-> connected]
       IN  /\ hosts' = newHosts
           /\ IF needsReset
              THEN /\ backend' = c.backend
                   /\ failuresLeft' = c.failuresLeft
                   /\ listeners' = r.listeners
                   /\ chans' = r.chans
                   /\ crashed' = r.panic
                   /\ call' = IF r.panic = "none" THEN done ELSE call
              ELSE /\ call' = done
                   /\ UNCHANGED <<backend, failuresLeft, listeners, chans, crashed>>
    /\ UNCHANGED <<dialPolicy, connected>>
    /\ UNCHANGED etcdOther

\* The cluster becomes unreachable for the next n SetCluster calls.
EtcdDown(n) ==
    /\ crashed = "none"
    /\ call.pc = "idle"
    /\ failuresLeft = 0
    /\ failuresLeft' = n
    /\ UNCHANGED <<dialPolicy, listeners, chans, connected, hosts, backend, call, crashed>>
    /\ UNCHANGED etcdOther

NextEtcd ==
    \/ EtcdDial
    \/ EtcdDialAttempt
    \/ EtcdDialWake
    \/ EtcdClose
    \/ \E c \in Chans : EtcdNotifyClose(c)
    \/ \E params \in EtcdSettings : EtcdConfig(params)
    \/ \E n \in 1..MaxFailures : EtcdDown(n)

SpecEtcd == InitEtcd /\ [][NextEtcd]_vars

(***************************************************************************)
(* C7: a Close that follows a Close, with no other call between the two,   *)
(* is a no-op: it finds the adapter disconnected, closes nothing, notifies *)
(* no listener (one registered between the two calls included) and changes *)
(* no field.  Stated for the etcd adapter.                                 *)
(***************************************************************************)
C7_SecondCloseIsNoOp ==
    [][(EtcdClose /\ call.op = "Close") =>
          /\ ~connected
          /\ UNCHANGED <<listeners, chans, connected, hosts, dialPolicy, backend,
                         failuresLeft, crashed>>]_vars

(***************************************************************************)
(* C11: a Dial called on a connected amqp adapter returns                  *)
(* ErrAlreadyConnected in one step, with no connect attempt, and leaves    *)
(* the policy's attempt counter, the connection handle, the connected      *)
(* flag, the listeners and their channels, the backend and the watchdogs   *)
(* as they were.                                                           *)
(***************************************************************************)
C11_DialWhenConnectedChangesNothing ==
    [][(AmqpDial /\ connected) =>
          /\ call' = DialReturn(ErrAlreadyConnected, CurAttempt(dialPolicy), 0, <<>>)
          /\ UNCHANGED <<dialPolicy, conn, connected, listeners, chans, backend,
                         failuresLeft, wd, endpoint, crashed>>]_vars

\* Dial returned ErrAlreadyConnected to a connected adapter whose watchdog is
\* waiting and which has a listener.
C11_Witness ==
    /\ call.pc = "idle" /\ call.op = "Dial"
    /\ call.result = ErrAlreadyConnected
    /\ call.attempts = 0
    /\ connected /\ conn # 0
    /\ backend[conn] = "open"
    /\ wd[conn].pc = "waiting"
    /\ listeners # <<>>

(***************************************************************************)
(* Amqp.Dial called by several goroutines at once.  Here the adapter lock  *)
(* is the variable mutex and every caller has its own position in Dial:    *)
(*   "out"       not in Dial                                               *)
(*   "lock"      at s.Lock() (line 65)                                     *)
(*   "check"     holding the lock, at the connected test (line 69)         *)
(*   "attempt"   at amqp.Dial (line 79)                                    *)
(*   "sleep"     at <-time.After(wait) (line 89)                           *)
(*   "connected" past the loop, before s.connected = true (line 92)        *)
(* The deferred Unlock runs in the step that returns.                      *)
(***************************************************************************)
Dialers == 1..NumDialers

\* The connections the driver can hand out: one for each caller.
DialerConnIds == 1..NumDialers

UnusedDialerConns == {i \in DialerConnIds : backend[i] = "unused"}

\* amqp.Dial(endpoint), as Connect, over DialerConnIds.
DialerConnect ==
    IF failuresLeft > 0
    THEN {[conn |-> c, err |-> DriverError] : c \in {0, DeadConn}}
    ELSE {[conn |-> CHOOSE i \in UnusedDialerConns : \A j \in UnusedDialerConns : i <= j,
           err |-> Nil]}

dialerOther == <<listeners, chans, endpoint, password, db, connectionTimeout, pool,
                 hosts, call, crashed, resetSeen>>

\* New(DialPolicy(...)) and goroutines that have not called Dial yet.
InitDialers ==
    /\ dialPolicy \in {Periodic(n, RetryInterval) : n \in 1..MaxAttemptsArg}
    /\ listeners = NewNotifier
    /\ chans = [c \in Chans |-> NewChan]
    /\ endpoint = "localhost:55672"
    /\ connected = FALSE
    /\ conn = 0
    /\ password = ""
    /\ db = 0
    /\ connectionTimeout = 1
    /\ pool = 0
    /\ hosts = <<>>
    /\ backend = [i \in DialerConnIds |-> "unused"]
    /\ failuresLeft = 0
    /\ call = NoCall
    /\ wd = [i \in DialerConnIds |-> [pc |-> "none"]]
    /\ crashed = "none"
    /\ mutex = 0
    /\ dialers = [p \in Dialers |-> [pc |-> "out", result |-> "none"]]
    /\ resetSeen = FALSE

\* A mutant of CanLock: Lock returns whether or not the mutex is held.
CanLockAlways(m) == TRUE

\* sync.Mutex.Lock returns only when the mutex is unlocked.
CanLock(m) == m = 0

\* A goroutine calls Dial and arrives at s.Lock().
DialerCall(p) ==
    /\ dialers[p].pc = "out"
    /\ dialers' = [dialers EXCEPT ![p] = [pc |-> "lock", result |-> "none"]]
    /\ UNCHANGED <<dialPolicy, connected, conn, backend, failuresLeft, wd, mutex>>
    /\ UNCHANGED dialerOther

\* s.Lock() returns.
DialerLock(p) ==
    /\ dialers[p].pc = "lock"
    /\ CanLock(mutex)
    /\ mutex' = p
    /\ dialers' = [dialers EXCEPT ![p].pc = "check"]
    /\ UNCHANGED <<dialPolicy, connected, conn, backend, failuresLeft, wd>>
    /\ UNCHANGED dialerOther

\* Lines 69-75: return ErrAlreadyConnected when connected, else call
\* NextRetry and enter the loop.
DialerCheck(p) ==
    /\ dialers[p].pc = "check"
    /\ IF connected
       THEN /\ dialers' = [dialers EXCEPT ![p] = [pc |-> "out",
                                                  result |-> DialWhenConnected]]
            /\ mutex' = 0
            /\ UNCHANGED dialPolicy
       ELSE /\ CurAttempt(dialPolicy) < MaxCurAttempt
            /\ \E r \in NextRetry(dialPolicy) :
                  /\ dialPolicy' = r.policy
                  /\ dialers' = [dialers EXCEPT ![p].pc = "attempt"]
            /\ UNCHANGED mutex
    /\ UNCHANGED <<connected, conn, backend, failuresLeft, wd>>
    /\ UNCHANGED dialerOther

\* Lines 77-89: one connect attempt; s.conn is written with its result.
DialerAttempt(p) ==
    /\ dialers[p].pc = "attempt"
    /\ failuresLeft > 0 \/ UnusedDialerConns # {}
    /\ \E c \in DialerConnect :
          /\ conn' = c.conn
          /\ IF c.err = Nil
             THEN /\ backend' = [backend EXCEPT ![c.conn] = "open"]
                  /\ dialers' = [dialers EXCEPT ![p].pc = "connected"]
                  /\ UNCHANGED <<failuresLeft, dialPolicy, mutex>>
             ELSE /\ failuresLeft' = failuresLeft - 1
                  /\ \E r \in NextRetry(dialPolicy) :
                        /\ dialPolicy' = r.policy
                        /\ IF r.err # Nil
                           THEN /\ dialers' = [dialers EXCEPT ![p] =
                                                  [pc |-> "out", result |-> DialError]]
                                /\ mutex' = 0
                           ELSE /\ dialers' = [dialers EXCEPT ![p].pc = "sleep"]
                                /\ UNCHANGED mutex
                  /\ UNCHANGED backend
    /\ UNCHANGED <<connected, wd>>
    /\ UNCHANGED dialerOther

\* Line 89: the wait is over.
DialerWake(p) ==
    /\ dialers[p].pc = "sleep"
    /\ dialers' = [dialers EXCEPT ![p].pc = "attempt"]
    /\ UNCHANGED <<dialPolicy, connected, conn, backend, failuresLeft, wd, mutex>>
    /\ UNCHANGED dialerOther

\* Lines 92-99: set the flag, reset the policy, start the watchdog, return.
DialerFinish(p) ==
    /\ dialers[p].pc = "connected"
    /\ connected' = TRUE
    /\ dialPolicy' = ResetAttempts(dialPolicy)
    /\ wd' = [wd EXCEPT ![conn] = [pc |-> "start"]]
    /\ dialers' = [dialers EXCEPT ![p] = [pc |-> "out", result |-> Nil]]
    /\ mutex' = 0
    /\ UNCHANGED <<conn, backend, failuresLeft>>
    /\ UNCHANGED dialerOther

\* The backend becomes unreachable for the next n connect attempts.
DialerBackendDown(n) ==
    /\ ~connected
    /\ failuresLeft = 0
    /\ \A p \in Dialers : dialers[p].pc \in {"out", "lock"}
    /\ failuresLeft' = n
    /\ UNCHANGED <<dialPolicy, connected, conn, backend, wd, mutex, dialers>>
    /\ UNCHANGED dialerOther

NextDialers ==
    \/ \E p \in Dialers : DialerCall(p)
    \/ \E p \in Dialers : DialerLock(p)
    \/ \E p \in Dialers : DialerCheck(p)
    \/ \E p \in Dialers : DialerAttempt(p)
    \/ \E p \in Dialers : DialerWake(p)
    \/ \E p \in Dialers : DialerFinish(p)
    \/ \E n \in 1..MaxFailures : DialerBackendDown(n)

SpecDialers == InitDialers /\ [][NextDialers]_vars

\* The callers between s.Lock() returning and the deferred s.Unlock().
InDial == {p \in Dialers : dialers[p].pc \in {"check", "attempt", "sleep", "connected"}}

OpenConns == {c \in DialerConnIds : backend[c] = "open"}

(***************************************************************************)
(* C12: with any number of goroutines calling Dial at once, at most one of *)
(* them is between Lock and Unlock (so s.conn and s.connected have one     *)
(* writer at a time) and it is the holder of the mutex; at most one        *)
(* backend connection is ever open; and when no call is in progress the    *)
(* adapter is connected exactly when one connection is open, that one      *)
(* being s.conn.                                                           *)
(***************************************************************************)
C12_DialersSerialized ==
    /\ Cardinality(InDial) <= 1
    /\ \A p \in InDial : mutex = p
    /\ (InDial = {} => mutex = 0)
    /\ Cardinality(OpenConns) <= 1
    /\ (connected => OpenConns = {conn})
    /\ (InDial = {} => (connected <=> OpenConns # {}))

\* One caller has connected and not yet returned while another is blocked in Lock.
C12_Witness ==
    \E p, q \in Dialers :
       /\ p # q
       /\ dialers[p].pc = "connected"
       /\ dialers[q].pc = "lock"
       /\ OpenConns = {conn}

(***************************************************************************)
(* A dial policy on its own: NextRetry, CurAttempt and ResetAttempts       *)
(* called in any order by one goroutine on a policy made by Periodic or    *)
(* ExpBackoff.  call records the last call and, as history, the arguments  *)
(* the policy was made with and what has been called since.                *)
(***************************************************************************)
PolicyArgs == (0..MaxAttemptsArg) \cup {ExpBackoffCap, ExpBackoffCap + 1}

PolicyDurations == {RetryInterval, Second}

RetryUnits == {1, Millisecond}

policyOther == <<listeners, chans, endpoint, connected, conn, password, db,
                 connectionTimeout, pool, hosts, backend, failuresLeft, wd,
                 crashed, mutex, dialers, resetSeen>>

\* Periodic(n, d) or ExpBackoff(n, u), not used yet.
InitPolicy ==
    /\ \E n \in PolicyArgs :
          /\ dialPolicy \in {Periodic(n, d) : d \in PolicyDurations}
                               \cup {ExpBackoff(n, u) : u \in RetryUnits}
          /\ call = [pc |-> "idle", op |-> "new", arg |-> n, calls |-> 0,
                     exhausted |-> FALSE, reset |-> FALSE, wait |-> 0,
                     err |-> Nil, value |-> 0]
    /\ listeners = NewNotifier
    /\ chans = <<>>
    /\ endpoint = ""
    /\ connected = FALSE
    /\ conn = 0
    /\ password = ""
    /\ db = 0
    /\ connectionTimeout = 0
    /\ pool = 0
    /\ hosts = <<>>
    /\ backend = <<>>
    /\ failuresLeft = 0
    /\ wd = <<>>
    /\ crashed = "none"
    /\ mutex = 0
    /\ dialers = <<>>
    /\ resetSeen = FALSE

\* The number of NextRetry calls since the policy was made or last reset,
\* counted up to the counter's wrap point.
CallsAfter(n) == IF n < CounterModulus THEN n + 1 ELSE n

\* d.NextRetry()
PolicyNextRetry ==
    /\ \E r \in NextRetry(dialPolicy) :
          /\ dialPolicy' = r.policy
          /\ call' = [call EXCEPT !.op = "NextRetry",
                                  !.calls = CallsAfter(call.calls),
                                  !.exhausted = call.exhausted \/ r.err # Nil,
                                  !.wait = r.wait,
                                  !.err = r.err,
                                  !.value = 0]
    /\ UNCHANGED policyOther

\* d.CurAttempt()
PolicyCurAttempt ==
    /\ call' = [call EXCEPT !.op = "CurAttempt", !.wait = 0, !.err = Nil,
                            !.value = CurAttempt(dialPolicy)]
    /\ UNCHANGED dialPolicy
    /\ UNCHANGED policyOther

\* d.ResetAttempts()
PolicyResetAttempts ==
    /\ dialPolicy' = ResetAttempts(dialPolicy)
    /\ call' = [call EXCEPT !.op = "ResetAttempts", !.calls = 0,
                            !.exhausted = FALSE, !.reset = TRUE, !.wait = 0,
                            !.err = Nil, !.value = 0]
    /\ UNCHANGED policyOther

NextPolicy ==
    \/ PolicyNextRetry
    \/ PolicyCurAttempt
    \/ PolicyResetAttempts

SpecPolicy == InitPolicy /\ [][NextPolicy]_vars

\* x >> n, which is 0 exactly when x < 2^n.
RECURSIVE ShiftRight(_, _)
ShiftRight(x, n) == IF n = 0 THEN x ELSE ShiftRight(x \div 2, n - 1)

(***************************************************************************)
(* C13: on a policy made by Periodic(maxAttempts, d) with maxAttempts at   *)
(* least 1, the first maxAttempts calls of NextRetry since the policy was  *)
(* made or last reset each return d and no error, and the next call        *)
(* returns an error.                                                       *)
(***************************************************************************)
C13_PeriodicAllowsMaxAttempts ==
    (/\ dialPolicy.kind = "Periodic"
     /\ call.arg >= 1
     /\ call.op = "NextRetry"
     /\ call.calls <= call.arg + 1)
    => IF call.calls <= call.arg
       THEN call.err = Nil /\ call.wait = dialPolicy.retry
                           /\ call.wait \in PolicyDurations
       ELSE call.err = ErrTimeout

\* The first NextRetry after a reset returns d.
C13_Witness ==
    /\ dialPolicy.kind = "Periodic"
    /\ call.arg = MaxAttemptsArg
    /\ call.reset
    /\ call.op = "NextRetry"
    /\ call.calls = 1
    /\ call.err = Nil
    /\ call.wait = Second

(***************************************************************************)
(* C14: on a policy made by ExpBackoff, whose maxAttempts is within 1..32  *)
(* after clamping, every NextRetry that returns no error is attempt a with *)
(* 1 <= a <= maxAttempts, and the interval it returns is at least 0 and    *)
(* below unit * 2^a for every unit of at least 1.                          *)
(***************************************************************************)
C14_ExpBackoffIntervalBounded ==
    (/\ dialPolicy.kind = "ExpBackoff"
     /\ call.op = "NextRetry"
     /\ call.err = Nil
     /\ call.calls < CounterModulus)
    => LET a == CurAttempt(dialPolicy)
       IN  /\ dialPolicy.maxAttempts \in 1..ExpBackoffCap
           /\ a \in 1..dialPolicy.maxAttempts
           /\ call.wait >= 0
           /\ \A unit \in RetryUnits \cup {2, dialPolicy.retry} :
                 ShiftRight(call.wait \div unit, a) = 0

\* The second attempt returned the largest interval it can, 2^2 - 1.
C14_Witness ==
    /\ dialPolicy.kind = "ExpBackoff"
    /\ call.op = "NextRetry"
    /\ call.err = Nil
    /\ CurAttempt(dialPolicy) = 2
    /\ call.wait = 3

(***************************************************************************)
(* C15: the interval ExpBackoff returns at attempt a is r * unit for some  *)
(* r with 0 <= r < 2^a, unit being the retry unit the policy was made      *)
(* with.                                                                   *)
(***************************************************************************)
C15_ExpBackoffScaledByUnit ==
    (/\ dialPolicy.kind = "ExpBackoff"
     /\ call.op = "NextRetry"
     /\ call.err = Nil
     /\ call.calls < CounterModulus)
    => /\ call.wait % dialPolicy.retry = 0
       /\ ShiftRight(call.wait \div dialPolicy.retry, CurAttempt(dialPolicy)) = 0

(***************************************************************************)
(* C16: a policy made by Periodic(0, d) or ExpBackoff(0, u) lets exactly   *)
(* the first NextRetry succeed, and a policy made by ExpBackoff(n, u) with *)
(* n above 32 lets exactly the first 32 succeed: the next call, and every  *)
(* later one before the counter wraps, reports exhaustion.                 *)
(***************************************************************************)
C16_ClampedAttempts ==
    (/\ call.op = "NextRetry"
     /\ call.calls < CounterModulus
     /\ (call.arg = 0 \/ (dialPolicy.kind = "ExpBackoff" /\ call.arg > ExpBackoffCap)))
    => (call.err = Nil <=> call.calls <= (IF call.arg = 0 THEN 1 ELSE ExpBackoffCap))

\* ExpBackoff(33, u) refused its 33rd attempt, all of them made without a reset.
C16_Witness ==
    /\ dialPolicy.kind = "ExpBackoff"
    /\ call.arg = ExpBackoffCap + 1
    /\ ~call.reset
    /\ call.op = "NextRetry"
    /\ call.calls = ExpBackoffCap + 1
    /\ call.err = ErrTimeout

(***************************************************************************)
(* C17: after k calls of NextRetry since the policy was made or last       *)
(* reset, k below the counter's wrap point and refused calls included,     *)
(* the counter is k and CurAttempt returns k; a call is refused exactly    *)
(* when k is above maxAttempts, so the counter is maxAttempts + 1 right    *)
(* after the first refusal.  CurAttempt leaves the policy as it was and    *)
(* ResetAttempts sets the counter to 0.                                    *)
(***************************************************************************)
C17_CounterCountsCalls ==
    /\ [](call.calls < CounterModulus =>
            /\ CurAttempt(dialPolicy) = call.calls
            /\ (call.op = "CurAttempt" => call.value = call.calls)
            /\ (call.op = "NextRetry" =>
                  (call.err # Nil <=> call.calls > dialPolicy.maxAttempts)))
    /\ [][/\ (call'.op = "CurAttempt" => dialPolicy' = dialPolicy)
          /\ (call'.op = "ResetAttempts" => CurAttempt(dialPolicy') = 0)]_vars

\* CurAttempt returned maxAttempts + 1 after the first refused NextRetry.
C17_Witness ==
    /\ call.op = "CurAttempt"
    /\ call.exhausted
    /\ dialPolicy.maxAttempts = MaxAttemptsArg
    /\ call.value = MaxAttemptsArg + 1

(***************************************************************************)
(* C18: once a NextRetry has reported exhaustion, every NextRetry called   *)
(* before the next ResetAttempts reports exhaustion too, and no NextRetry  *)
(* makes the counter smaller, also when the counter is at its largest      *)
(* value.                                                                  *)
(***************************************************************************)
C18_ExhaustionLasts ==
    [][call'.op = "NextRetry" =>
          /\ (call.exhausted => call'.err # Nil)
          /\ CurAttempt(dialPolicy') >= CurAttempt(dialPolicy)]_vars

(***************************************************************************)
(* Goroutines calling one policy at once.  Each method takes the policy's  *)
(* mutex first and releases it when it returns; d.curAttempt++ is a load   *)
(* and a store.  call keeps, as history, the policy as it was made and the *)
(* calls that have returned, in the order they returned.                   *)
(***************************************************************************)
Callers == 1..NumCallers

PolicyOps == {"NextRetry", "CurAttempt", "ResetAttempts"}

NotCalling == [pc |-> "out", op |-> "none", tmp |-> 0, value |-> 0, wait |-> 0,
               err |-> Nil]

InitCallers ==
    /\ dialPolicy \in {Periodic(n, RetryInterval) : n \in 1..MaxAttemptsArg}
                         \cup {ExpBackoff(n, Millisecond) : n \in 1..MaxAttemptsArg}
    /\ call = [pc |-> "idle", op |-> "callers", new |-> dialPolicy, log |-> <<>>]
    /\ dialers = [p \in Callers |-> NotCalling]
    /\ mutex = 0
    /\ listeners = NewNotifier
    /\ chans = <<>>
    /\ endpoint = ""
    /\ connected = FALSE
    /\ conn = 0
    /\ password = ""
    /\ db = 0
    /\ connectionTimeout = 0
    /\ pool = 0
    /\ hosts = <<>>
    /\ backend = <<>>
    /\ failuresLeft = 0
    /\ wd = <<>>
    /\ crashed = "none"
    /\ resetSeen = FALSE

callersOther == <<listeners, chans, endpoint, connected, conn, password, db,
                  connectionTimeout, pool, hosts, backend, failuresLeft, wd,
                  crashed, resetSeen>>

\* The entry a returned call leaves in the history.
Returned(p, c) == [caller |-> p, op |-> c.op, value |-> c.value, wait |-> c.wait,
                   err |-> c.err]

\* A goroutine calls one of the methods and arrives at d.Lock().
CallerCall(p, op) ==
    /\ dialers[p].pc = "out"
    /\ dialers' = [dialers EXCEPT ![p] = [NotCalling EXCEPT !.pc = "lock", !.op = op]]
    /\ UNCHANGED <<dialPolicy, mutex, call>>
    /\ UNCHANGED callersOther

\* d.Lock() returns.
CallerLock(p) ==
    /\ dialers[p].pc = "lock"
    /\ CanLock(mutex)
    /\ mutex' = p
    /\ dialers' = [dialers EXCEPT ![p].pc = dialers[p].op]
    /\ UNCHANGED <<dialPolicy, call>>
    /\ UNCHANGED callersOther

\* NextRetry, d.curAttempt++: the load.
CallerLoad(p) ==
    /\ dialers[p].pc = "NextRetry"
    /\ dialers' = [dialers EXCEPT ![p].pc = "store", ![p].tmp = dialPolicy.curAttempt]
    /\ UNCHANGED <<dialPolicy, mutex, call>>
    /\ UNCHANGED callersOther

\* NextRetry, d.curAttempt++: the store.
CallerStore(p) ==
    /\ dialers[p].pc = "store"
    /\ dialPolicy' = [dialPolicy EXCEPT
                         !.curAttempt = (dialers[p].tmp + 1) % CounterModulus]
    /\ dialers' = [dialers EXCEPT ![p].pc = "generate"]
    /\ UNCHANGED <<mutex, call>>
    /\ UNCHANGED callersOther

\* NextRetry: return d.retryGenerator(d.curAttempt), and the deferred Unlock.
CallerGenerate(p) ==
    /\ dialers[p].pc = "generate"
    /\ \E g \in RetryGenerator(dialPolicy, dialPolicy.curAttempt) :
          LET c == [dialers[p] EXCEPT !.pc = "done", !.value = dialPolicy.curAttempt,
                                      !.wait = g.wait, !.err = g.err]
          IN  /\ dialers' = [dialers EXCEPT ![p] = c]
              /\ call' = [call EXCEPT !.log = Append(call.log, Returned(p, c))]
    /\ mutex' = IF mutex = p THEN 0 ELSE mutex
    /\ UNCHANGED dialPolicy
    /\ UNCHANGED callersOther

\* CurAttempt: return d.curAttempt, and the deferred Unlock.
CallerRead(p) ==
    /\ dialers[p].pc = "CurAttempt"
    /\ LET c == [dialers[p] EXCEPT !.pc = "done", !.value = CurAttempt(dialPolicy)]
       IN  /\ dialers' = [dialers EXCEPT ![p] = c]
           /\ call' = [call EXCEPT !.log = Append(call.log, Returned(p, c))]
    /\ mutex' = IF mutex = p THEN 0 ELSE mutex
    /\ UNCHANGED dialPolicy
    /\ UNCHANGED callersOther

\* ResetAttempts: d.curAttempt = 0, and the deferred Unlock.
CallerReset(p) ==
    /\ dialers[p].pc = "ResetAttempts"
    /\ dialPolicy' = ResetAttempts(dialPolicy)
    /\ LET c == [dialers[p] EXCEPT !.pc = "done"]
       IN  /\ dialers' = [dialers EXCEPT ![p] = c]
           /\ call' = [call EXCEPT !.log = Append(call.log, Returned(p, c))]
    /\ mutex' = IF mutex = p THEN 0 ELSE mutex
    /\ UNCHANGED callersOther

NextCallers ==
    \/ \E p \in Callers, op \in PolicyOps : CallerCall(p, op)
    \/ \E p \in Callers : CallerLock(p)
    \/ \E p \in Callers : CallerLoad(p)
    \/ \E p \in Callers : CallerStore(p)
    \/ \E p \in Callers : CallerGenerate(p)
    \/ \E p \in Callers : CallerRead(p)
    \/ \E p \in Callers : CallerReset(p)

SpecCallers == InitCallers /\ [][NextCallers]_vars

\* The callers between d.Lock() returning and the deferred d.Unlock().
InPolicy == {p \in Callers : dialers[p].pc \notin {"out", "lock", "done"}}

\* The policies that calling the methods one after another, as the history
\* lists them and with the results it lists, can leave behind: none when
\* no such sequential run exists.
RECURSIVE Replay(_, _)
Replay(p, log) ==
    IF log = <<>>
    THEN {p}
    ELSE LET e == Head(log)
         IN  CASE e.op = "NextRetry" ->
                    UNION {Replay(r.policy, Tail(log)) :
                             r \in {x \in NextRetry(p) :
                                      /\ x.wait = e.wait
                                      /\ x.err = e.err
                                      /\ CurAttempt(x.policy) = e.value}}
               [] e.op = "CurAttempt" ->
                    IF CurAttempt(p) = e.value THEN Replay(p, Tail(log)) ELSE {}
               [] OTHER -> Replay(ResetAttempts(p), Tail(log))

\* The NextRetry calls that have returned.
RetriesDone == {p \in Callers : dialers[p].pc = "done" /\ dialers[p].op = "NextRetry"}

Min(a, b) == IF a < b THEN a ELSE b

(***************************************************************************)
(* C19: with goroutines calling NextRetry, CurAttempt and ResetAttempts of *)
(* one policy at once, at most one of them is between Lock and Unlock;     *)
(* the calls that have returned, taken in the order they returned, are a   *)
(* run of the methods one after another that gives each call the result   *)
(* it got and, when no call holds the lock, leaves the counter as it is;   *)
(* and while no ResetAttempts has been called the k NextRetry calls that   *)
(* have returned saw the attempt numbers 1..k, each once, exactly          *)
(* min(k, maxAttempts) of them without error.                              *)
(***************************************************************************)
C19_PolicyLinearizable ==
    /\ Cardinality(InPolicy) <= 1
    /\ \A p \in InPolicy : mutex = p
    /\ Replay(call.new, call.log) # {}
    /\ (InPolicy = {} => dialPolicy \in Replay(call.new, call.log))
    /\ (\A p \in Callers : dialers[p].op # "ResetAttempts") =>
          /\ {dialers[p].value : p \in RetriesDone} = 1..Cardinality(RetriesDone)
          /\ Cardinality({p \in RetriesDone : dialers[p].err = Nil})
                = Min(Cardinality(RetriesDone), dialPolicy.maxAttempts)
          /\ (InPolicy = {} => CurAttempt(dialPolicy) = Cardinality(RetriesDone))

\* All the goroutines called NextRetry, more of them than maxAttempts, and
\* all have returned, some of them refused.
C19_Witness ==
    /\ RetriesDone = Callers
    /\ dialPolicy.maxAttempts < NumCallers
    /\ \E p \in Callers : dialers[p].err # Nil

(***************************************************************************)
(* C20: whatever Add and NotifyAll calls are made on a notifier, the same  *)
(* channel added twice before a NotifyAll included, no NotifyAll sends on  *)
(* or closes a channel it has already closed, no channel receives more     *)
(* than one value, and a NotifyAll changes no channel that is not in the   *)
(* registry when it starts.                                                *)
(***************************************************************************)
C20_ListenersNotifiedOnce ==
    /\ [](/\ crashed \notin {"send on closed channel", "close of closed channel"}
          /\ \A c \in NotifierChans : Len(chans[c].vals) <= 1)
    /\ [][call'.op = "NotifyAll" =>
             \A c \in NotifierChans \ Range(listeners) : chans'[c] = chans[c]]_vars

(***************************************************************************)
(* C21: a Config call of the amqp adapter whose mapping has only a key the *)
(* adapter does not know returns no error and changes nothing: not the     *)
(* endpoint, the policy, the flag, the handle, the listeners or their      *)
(* channels, the backend connection or the watchdogs, connected or not.    *)
(***************************************************************************)
C21_UnknownKeysIgnored ==
    [][AmqpConfig([k \in {"unknown"} |-> "x"]) =>
          /\ call' = [pc |-> "idle", op |-> "Config", result |-> Nil,
                      changed |-> FALSE, wasConnected |-> connected]
          /\ UNCHANGED <<endpoint, dialPolicy, connected, conn, listeners, chans,
                         backend, failuresLeft, wd, crashed>>]_vars

\* Config returned on a connected adapter with a listener, and the adapter is
\* still connected.
C21_Witness ==
    /\ call.pc = "idle" /\ call.op = "Config"
    /\ call.result = Nil /\ ~call.changed /\ call.wasConnected
    /\ connected /\ conn # 0 /\ backend[conn] = "open"
    /\ listeners # <<>>

(***************************************************************************)
(* C21, the redis adapter: a Config call whose mapping has none of the     *)
(* four keys the adapter knows returns no error and changes nothing: no    *)
(* setting, no new pool, no notification.                                  *)
(***************************************************************************)
C21_RedisUnknownKeysIgnored ==
    [][RedisConfig([k \in {"unknown"} |-> "x"]) =>
          /\ call' = [pc |-> "idle", op |-> "Config", result |-> Nil,
                      changed |-> FALSE, wasConnected |-> connected]
          /\ UNCHANGED <<endpoint, password, db, connectionTimeout, dialPolicy,
                         connected, pool, listeners, chans, backend, crashed>>]_vars

(***************************************************************************)
(* Redis.SetOptions.  An option is a function applied to the adapter:      *)
(* Config(params) calls the adapter's Config, DialPolicy(policy) calls     *)
(* SetDialPolicy, Logger(logger) calls SetLogger (the logger is not part   *)
(* of the model).  The adapter is handled as the record of its fields.     *)
(***************************************************************************)
RedisAdapter ==
    [endpoint |-> endpoint, password |-> password, db |-> db,
     connectionTimeout |-> connectionTimeout, dialPolicy |-> dialPolicy,
     connected |-> connected, pool |-> pool, backend |-> backend,
     listeners |-> listeners, chans |-> chans, crashed |-> crashed]

\* The options: Config with a db, a password or nothing, DialPolicy, Logger.
ServiceOptions ==
    {[kind |-> "Config", params |-> ps] :
        ps \in {x \in RedisSettings : DOMAIN x \in {{}, {"db"}, {"password"}}}}
      \cup {[kind |-> "DialPolicy", policy |-> Periodic(MaxAttemptsArg, RetryInterval)],
            [kind |-> "Logger"]}

RECURSIVE SeqsUpTo(_, _)
SeqsUpTo(S, n) ==
    IF n = 0 THEN {<<>>}
    ELSE LET shorter == SeqsUpTo(S, n - 1)
         IN  shorter \cup {Append(q, x) : q \in shorter, x \in S}

\* Redis.Config on the record: the adapter it leaves and the error it returns.
Configured(a, params) ==
    LET has(k) == k \in DOMAIN params
        dbR    == Atoi(params["db"])
        toR    == Atoi(params["connTimeout"])
        dbErr  == has("db") /\ dbR.err
        toErr  == ~dbErr /\ has("connTimeout") /\ toR.err
        stored == [a EXCEPT
                     !.endpoint = IF has("endpoint") THEN params["endpoint"] ELSE @,
                     !.password = IF has("password") THEN params["password"] ELSE @,
                     !.db = IF has("db") /\ ~dbErr THEN dbR.val ELSE @,
                     !.connectionTimeout =
                         IF ~dbErr /\ has("connTimeout") /\ ~toErr THEN toR.val ELSE @]
        needsReset == has("endpoint") \/ has("password") \/ has("db")
                         \/ has("connTimeout")
        unused == {i \in PoolIds : a.backend[i] = "unused"}
        new    == CHOOSE i \in unused : \A j \in unused : i <= j
        n      == NotifyAll(a.listeners, a.chans, Nil)
    IN  IF dbErr THEN [adapter |-> stored, err |-> InvalidDb]
        ELSE IF toErr THEN [adapter |-> stored, err |-> InvalidConnTimeout]
        ELSE IF ~needsReset THEN [adapter |-> stored, err |-> Nil]
        ELSE [adapter |-> [stored EXCEPT
                             !.pool = new,
                             !.backend = [a.backend EXCEPT ![new] = "open"],
                             !.connected = TRUE,
                             !.dialPolicy = ResetAttempts(a.dialPolicy),
                             !.listeners = n.listeners,
                             !.chans = n.chans,
                             !.crashed = n.panic],
              err |-> Nil]

\* opt(s): the option applied to the adapter.
ApplyOption(a, opt) ==
    CASE opt.kind = "Config" -> Configured(a, opt.params)
      [] opt.kind = "DialPolicy" ->
           [adapter |-> [a EXCEPT !.dialPolicy = opt.policy], err |-> Nil]
      [] OTHER -> [adapter |-> a, err |-> Nil]

\* A mutant of SetOptions: a failing option does not end the loop; the last
\* error is returned.
RECURSIVE SetOptionsToTheEnd(_, _)
SetOptionsToTheEnd(a, opts) ==
    IF opts = <<>>
    THEN [adapter |-> a, err |-> Nil]
    ELSE LET r    == ApplyOption(a, Head(opts))
             rest == SetOptionsToTheEnd(r.adapter, Tail(opts))
         IN  IF rest.err # Nil \/ r.err = Nil THEN rest
             ELSE [adapter |-> rest.adapter, err |-> r.err]

\* Redis.SetOptions: apply the options in order, return at the first error.
RECURSIVE SetOptions(_, _)
SetOptions(a, opts) ==
    IF opts = <<>>
    THEN [adapter |-> a, err |-> Nil]
    ELSE LET r == ApplyOption(a, Head(opts))
         IN  IF r.err # Nil THEN r ELSE SetOptions(r.adapter, Tail(opts))

\* s.SetOptions(opts...) on the adapter, which Dial and Close may have used.
RedisSetOptions(opts) ==
    /\ crashed = "none"
    /\ call.pc = "idle"
    /\ Cardinality(UnusedPools) >= Len(opts)
    /\ LET r == SetOptions(RedisAdapter, opts)
       IN  /\ endpoint' = r.adapter.endpoint
           /\ password' = r.adapter.password
           /\ db' = r.adapter.db
           /\ connectionTimeout' = r.adapter.connectionTimeout
           /\ dialPolicy' = r.adapter.dialPolicy
           /\ connected' = r.adapter.connected
           /\ pool' = r.adapter.pool
           /\ backend' = r.adapter.backend
           /\ listeners' = r.adapter.listeners
           /\ chans' = r.adapter.chans
           /\ crashed' = r.adapter.crashed
           /\ call' = [pc |-> "idle", op |-> "SetOptions", opts |-> opts,
                       before |-> RedisAdapter, result |-> r.err]
    /\ UNCHANGED redisOther

\* GetConnection: return (nil, ErrConnectionClosed) when not connected, else
\* release the lock and ask the pool s.pool, which may fail to connect.
RedisGetConnection ==
    /\ crashed = "none"
    /\ call.pc = "idle"
    /\ IF ~connected
       THEN call' = [pc |-> "idle", op |-> "GetConnection", result |-> WhenDisconnected,
                     used |-> 0]
       ELSE \E err \in {Nil, DriverError} :
               call' = [pc |-> "idle", op |-> "GetConnection", result |-> err,
                        used |-> pool]
    /\ UNCHANGED <<dialPolicy, listeners, chans, endpoint, connected, password, db,
                   connectionTimeout, pool, backend, crashed>>
    /\ UNCHANGED redisOther

NextOptions ==
    \/ \E opts \in SeqsUpTo(ServiceOptions, MaxOptions) : RedisSetOptions(opts)
    \/ RedisDial
    \/ RedisClose
    \/ RedisGetConnection

SpecOptions == InitRedis /\ [][NextOptions]_vars

\* The adapter after the first n of the options were applied in order.
RECURSIVE Applied(_, _, _)
Applied(a, opts, n) ==
    IF n = 0 THEN a ELSE ApplyOption(Applied(a, opts, n - 1), opts[n]).adapter

\* The options that fail when their turn comes.
Failing(a, opts) ==
    {i \in 1..Len(opts) : ApplyOption(Applied(a, opts, i - 1), opts[i]).err # Nil}

(***************************************************************************)
(* C22: when SetOptions returns, the adapter is as the options up to and   *)
(* including the first failing one, applied in argument order, leave it,   *)
(* and the error of that option is returned; when no option fails all of   *)
(* them were applied in order and no error is returned.                    *)
(***************************************************************************)
C22_SetOptionsStopsAtFirstError ==
    (call.op = "SetOptions") =>
        LET failing == Failing(call.before, call.opts)
            first   == CHOOSE i \in failing : \A j \in failing : i <= j
        IN  IF failing = {}
            THEN /\ call.result = Nil
                 /\ RedisAdapter = Applied(call.before, call.opts, Len(call.opts))
            ELSE /\ call.result =
                       ApplyOption(Applied(call.before, call.opts, first - 1),
                                   call.opts[first]).err
                 /\ call.result # Nil
                 /\ RedisAdapter = Applied(call.before, call.opts, first)

\* A Config with a bad db failed between two DialPolicy options: the first
\* policy is in place, the second was not applied.
C22_Witness ==
    /\ call.op = "SetOptions"
    /\ Len(call.opts) = MaxOptions
    /\ call.opts[1].kind = "DialPolicy"
    /\ call.opts[2].kind = "Config"
    /\ call.result = InvalidDb
    /\ dialPolicy = call.opts[1].policy
    /\ dialPolicy # call.before.dialPolicy

(***************************************************************************)
(* C23: a NewChannel call on an amqp adapter that is not connected returns *)
(* no channel and ErrConnectionClosed, goes to no connection handle and    *)
(* changes nothing of the adapter or the backend.                          *)
(***************************************************************************)
C23_NewChannelWhenDisconnected ==
    [][(AmqpNewChannel /\ ~connected) =>
          /\ call' = [pc |-> "idle", op |-> "NewChannel", channel |-> FALSE,
                      result |-> ErrConnectionClosed, used |-> 0]
          /\ UNCHANGED <<dialPolicy, listeners, chans, endpoint, connected, conn,
                         backend, failuresLeft, wd, crashed>>]_vars

\* NewChannel was refused after a connection had been made and closed.
C23_Witness ==
    /\ call.pc = "idle" /\ call.op = "NewChannel"
    /\ call.result = ErrConnectionClosed
    /\ ~connected /\ conn = 0
    /\ \E c \in ConnIds : backend[c] = "closed"

(***************************************************************************)
(* C23, the redis adapter: a GetConnection call on an adapter that is not  *)
(* connected returns ErrConnectionClosed, goes to no pool and changes      *)
(* nothing.                                                                *)
(***************************************************************************)
C23_GetConnectionWhenDisconnected ==
    [][(RedisGetConnection /\ ~connected) =>
          /\ call' = [pc |-> "idle", op |-> "GetConnection",
                      result |-> ErrConnectionClosed, used |-> 0]
          /\ UNCHANGED <<dialPolicy, listeners, chans, endpoint, connected, password,
                         db, connectionTimeout, pool, backend, crashed>>]_vars

(***************************************************************************)
(* C24: whenever no call holds the lock of the amqp adapter, a set         *)
(* connected flag comes with a handle that is not nil and whose connection *)
(* is open (or has shut down without its watchdog having reported it yet), *)
(* and a cleared flag comes with a nil handle.                             *)
(***************************************************************************)
C24_FlagMatchesHandle ==
    (crashed = "none" /\ call.pc = "idle") =>
        /\ connected =>
              /\ conn # 0
              /\ (ConnState(conn) = "open" \/ wd[conn].pc # "done")
        /\ ~connected => conn = 0

\* Close or Config has closed connection c and called NotifyAll for it.
NotifiedByCall(c) ==
    /\ c \in ConnIds
    /\ backend[c] = "closed"
    /\ ~(call.pc = "notify" /\ conn = c)

\* A watchdog has called NotifyAll for the shutdown of connection c.
NotifiedByWatchdog(c) == \E w \in ConnIds : wd[w].pc = "done" /\ wd[w].sub = c

(***************************************************************************)
(* C25: NotifyAll is not called a second time for the same amqp            *)
(* connection: a watchdog does not call it for a connection for which      *)
(* Close, Config or another watchdog has called it, and Close and Config   *)
(* do not call it for a connection for which a watchdog has.               *)
(***************************************************************************)
C25_OneFanOutPerConnection ==
    [][/\ \A w \in ConnIds :
             WatchdogFire(w) =>
                /\ ~NotifiedByCall(wd[w].sub)
                /\ ~NotifiedByWatchdog(wd[w].sub)
       /\ (AmqpCloseNotify \/ AmqpConfigNotify) => ~NotifiedByWatchdog(conn)]_vars

(***************************************************************************)
(* C26: a Dial call that is suspended in the wait between two connect      *)
(* attempts does not hold the adapter lock.                                *)
(***************************************************************************)
C26_SleepWithoutLock ==
    \A p \in Dialers : dialers[p].pc = "sleep" => mutex # p

(***************************************************************************)
(* C27: a Dial call that returns the timeout has made as many connect      *)
(* attempts and waits as a Dial on a policy just reset makes, whatever     *)
(* earlier Dial calls did: with Periodic(maxAttempts, d), maxAttempts      *)
(* attempts and maxAttempts - 1 waits.                                     *)
(***************************************************************************)
C27_EveryDialFreshSchedule ==
    (call.pc = "idle" /\ call.op = "Dial" /\ call.result = ErrTimeout) =>
        /\ call.attempts = dialPolicy.maxAttempts
        /\ Len(call.waits) = dialPolicy.maxAttempts - 1

(***************************************************************************)
(* C28: at the step at which an amqp Dial returns success, the connected   *)
(* flag is set, the handle is the connection that this step's connect      *)
(* attempt opened, the policy's attempt counter is 0, and one watchdog,    *)
(* and no more, has been started: for that connection, which had none.     *)
(***************************************************************************)
C28_DialSuccessState ==
    [][(AmqpDialAttempt /\ call'.pc = "idle" /\ call'.result = Nil) =>
          /\ connected'
          /\ conn' \in ConnIds
          /\ backend[conn'] = "unused" /\ backend'[conn'] = "open"
          /\ CurAttempt(dialPolicy') = 0
          /\ wd[conn'].pc = "none" /\ wd'[conn'].pc = "start"
          /\ \A w \in ConnIds \ {conn'} : wd'[w] = wd[w]]_vars

\* Dial returned success after a failed attempt and a wait; its watchdog has
\* not run yet.
C28_Witness ==
    /\ call.pc = "idle" /\ call.op = "Dial" /\ call.result = Nil
    /\ call.attempts >= 2
    /\ connected /\ conn \in ConnIds /\ backend[conn] = "open"
    /\ CurAttempt(dialPolicy) = 0
    /\ wd[conn].pc = "start"

(***************************************************************************)
(* The amqp adapter with its watchdog goroutines scheduled: a watchdog     *)
(* that can take its next step does take it.                               *)
(***************************************************************************)
SpecAmqpLive ==
    /\ SpecAmqp
    /\ \A w \in ConnIds : WF_vars(WatchdogStart(w)) /\ WF_vars(WatchdogFire(w))

\* The watchdogs that have been started and have not ended.
LiveWatchdogs == {w \in ConnIds : wd[w].pc \in {"start", "waiting"}}

(***************************************************************************)
(* C29: at no time is more than one amqp watchdog alive, and whenever the  *)
(* adapter is disconnected with no call in progress, the watchdogs of its  *)
(* earlier connections end: a state follows in which none is alive, or in  *)
(* which the adapter is connected again.                                   *)
(***************************************************************************)
C29_WatchdogsEnd ==
    /\ [](Cardinality(LiveWatchdogs) <= 1)
    /\ ((~connected /\ call.pc = "idle") ~> (LiveWatchdogs = {} \/ connected))

(***************************************************************************)
(* C30: the watchdog started for a connection reads that connection from   *)
(* the handle and subscribes to it: not nil, and not the connection of a   *)
(* later Dial.                                                             *)
(***************************************************************************)
C30_WatchdogSubscribesToOwn ==
    [][\A w \in ConnIds :
          WatchdogStart(w) =>
             /\ conn = w
             /\ wd'[w].pc = "waiting"
             /\ wd'[w].sub = w]_vars


(***************************************************************************)
(* C31: a connected adapter is connected with the settings it stores.  The *)
(* redis pool is built by setupPool only, so the claim is that whenever a  *)
(* step changes a stored setting (endpoint, password, db or                *)
(* connectionTimeout) and leaves the adapter connected, the pool held      *)
(* after the step was created in that step, and every registered listener  *)
(* got the reset signal.                                                   *)
(***************************************************************************)
RedisStored == <<endpoint, password, db, connectionTimeout>>

C31_ConnectedWithStoredSettings ==
    [][(connected' /\ crashed' = "none" /\ RedisStored' # RedisStored) =>
          /\ pool' # pool
          /\ backend[pool'] = "unused"
          /\ backend'[pool'] = "open"
          /\ listeners' = <<>>]_vars

\* The amqp adapter: a Config call that changed the stored endpoint returns
\* with the adapter disconnected.
C31_AmqpConnectedWithStoredEndpoint ==
    [][(AmqpConfigReturns /\ call'.changed) => ~connected']_vars


(***************************************************************************)
(* C32: a Config call on a redis adapter that is not connected leaves it   *)
(* not connected and delivers nothing to any listener: no channel gets a   *)
(* value or is closed and the registry keeps its listeners.                *)
(***************************************************************************)
C32_ConfigKeepsDisconnected ==
    [][(~connected /\ \E params \in RedisSettings : RedisConfig(params)) =>
          /\ ~connected'
          /\ chans' = chans
          /\ listeners' = listeners]_vars

\* The same for the etcd adapter.
C32_EtcdConfigKeepsDisconnected ==
    [][(~connected /\ \E params \in EtcdSettings : EtcdConfig(params)) =>
          /\ ~connected'
          /\ chans' = chans
          /\ listeners' = listeners]_vars


(***************************************************************************)
(* The redis pool dialer.  The pool calls dialPoolConnection whenever it   *)
(* has to open a connection; the method holds the adapter lock from its    *)
(* first step to its return, so call is the pool dial in progress.         *)
(* failuresLeft is the number of connect attempts the backend will still   *)
(* refuse.  SetDialPolicy takes no lock.                                   *)
(***************************************************************************)
\* The policies handed to SetDialPolicy.
PoolPolicies == {Periodic(m, RetryInterval) : m \in 2..MaxAttemptsArg}

\* The settings mappings handed to Config here.
PoolSettings == {params \in RedisSettings : DOMAIN params = {"password"}}

\* What a returned dialPoolConnection leaves in call.
PoolDialReturn(result, start, attempts) ==
    [pc |-> "idle", op |-> "dialPoolConnection", result |-> result,
     start |-> start, attempts |-> attempts]

\* SetDialPolicy: the field is replaced, whatever else is running.
RedisSetDialPolicy(policy) ==
    /\ crashed = "none"
    /\ dialPolicy # policy
    /\ dialPolicy' = policy
    /\ UNCHANGED <<listeners, chans, endpoint, connected, password, db,
                   connectionTimeout, pool, backend, call, crashed>>
    /\ UNCHANGED redisOther

\* dialPoolConnection, lines 300-306: the pool held by the adapter opens a
\* connection; take the lock and call NextRetry (its results are
\* overwritten in the loop).
RedisPoolDial ==
    /\ crashed = "none"
    /\ call.pc = "idle"
    /\ pool # 0 /\ backend[pool] = "open"
    /\ CurAttempt(dialPolicy) < MaxCurAttempt
    /\ \E r \in NextRetry(dialPolicy) :
          /\ dialPolicy' = r.policy
          /\ call' = [pc |-> "attempt", op |-> "dialPoolConnection",
                      start |-> CurAttempt(dialPolicy), attempts |-> 0]
    /\ UNCHANGED <<listeners, chans, endpoint, connected, password, db,
                   connectionTimeout, pool, backend, crashed, failuresLeft>>
    /\ UNCHANGED <<conn, hosts, wd, mutex, dialers, resetSeen>>

\* dialPoolConnection, lines 307-335: one pass of the loop.  A connect that
\* succeeds is followed by AUTH when a password is stored and SELECT when db
\* is positive, either of which may fail; a connect that fails asks
\* NextRetry and returns ErrTimeout or goes to sleep.
RedisPoolAttempt ==
    /\ crashed = "none"
    /\ call.pc = "attempt" /\ call.op = "dialPoolConnection"
    /\ LET n == call.attempts + 1
       IN  IF failuresLeft = 0
           THEN /\ \E err \in {Nil} \cup (IF password # "" \/ db > 0
                                          THEN {DriverError} ELSE {}) :
                      call' = PoolDialReturn(err, call.start, n)
                /\ UNCHANGED <<dialPolicy, failuresLeft>>
           ELSE /\ failuresLeft' = failuresLeft - 1
                /\ \E r \in NextRetry(dialPolicy) :
                      /\ dialPolicy' = r.policy
                      /\ call' = IF r.err # Nil
                                 THEN PoolDialReturn(ErrTimeout, call.start, n)
                                 ELSE [call EXCEPT !.pc = "sleep", !.attempts = n]
    /\ UNCHANGED <<listeners, chans, endpoint, connected, password, db,
                   connectionTimeout, pool, backend, crashed>>
    /\ UNCHANGED <<conn, hosts, wd, mutex, dialers, resetSeen>>

\* dialPoolConnection, line 319: the wait is over; the lock was held
\* throughout.
RedisPoolWake ==
    /\ crashed = "none"
    /\ call.pc = "sleep" /\ call.op = "dialPoolConnection"
    /\ call' = [call EXCEPT !.pc = "attempt"]
    /\ UNCHANGED <<dialPolicy, listeners, chans, endpoint, connected, password, db,
                   connectionTimeout, pool, backend, crashed, failuresLeft>>
    /\ UNCHANGED <<conn, hosts, wd, mutex, dialers, resetSeen>>

\* The redis server becomes unreachable for the next n connect attempts.
RedisDown(n) ==
    /\ crashed = "none"
    /\ call.pc = "idle"
    /\ failuresLeft = 0
    /\ failuresLeft' = n
    /\ UNCHANGED <<dialPolicy, listeners, chans, endpoint, connected, password, db,
                   connectionTimeout, pool, backend, call, crashed>>
    /\ UNCHANGED <<conn, hosts, wd, mutex, dialers, resetSeen>>

NextPool ==
    \/ RedisDial
    \/ RedisClose
    \/ \E params \in PoolSettings : RedisConfig(params)
    \/ \E policy \in PoolPolicies : RedisSetDialPolicy(policy)
    \/ RedisPoolDial
    \/ RedisPoolAttempt
    \/ RedisPoolWake
    \/ \E n \in 1..MaxFailures : RedisDown(n)

SpecPool == InitRedis /\ [][NextPool]_vars

\* The connect attempts a dial loop makes against a backend that refuses all
\* of them, p being the policy after the NextRetry call before the attempt.
RECURSIVE AttemptsFrom(_)
AttemptsFrom(p) ==
    LET r == CHOOSE x \in NextRetry(p) : TRUE
    IN  IF r.err # Nil THEN 1 ELSE 1 + AttemptsFrom(r.policy)

\* The same, for a loop that starts with the counter reset.
FullBudget(p) ==
    AttemptsFrom((CHOOSE x \in NextRetry(ResetAttempts(p)) : TRUE).policy)

(***************************************************************************)
(* C33: every pool dial has the full budget of the policy.  When           *)
(* dialPoolConnection returns ErrTimeout it has made as many connect       *)
(* attempts as a dial loop that starts with the counter reset, whatever    *)
(* pool dials came before it.                                              *)
(***************************************************************************)
C33_PoolDialFullBudget ==
    [][(RedisPoolAttempt /\ call'.pc = "idle" /\ call'.result = ErrTimeout) =>
          call'.attempts = FullBudget(dialPolicy')]_vars


(***************************************************************************)
(* The amqp adapter with SetDialPolicy.  SetDialPolicy takes no lock: it   *)
(* stores its argument whatever call is in progress.  SetLogger is written *)
(* the same way; the logger is not part of the state followed here.        *)
(***************************************************************************)
\* The policies handed to SetDialPolicy, each a new object.
AmqpPolicies == {Periodic(n, RetryInterval) : n \in 1..MaxAttemptsArg}

\* SetDialPolicy, lines 130-132.
AmqpSetDialPolicy(policy) ==
    /\ crashed = "none"
    /\ dialPolicy' = policy
    /\ UNCHANGED <<listeners, chans, endpoint, connected, conn, backend,
                   failuresLeft, call, wd, crashed, resetSeen>>
    /\ UNCHANGED otherAdapters

NextAmqpPolicy ==
    \/ NextAmqp
    \/ \E policy \in AmqpPolicies : AmqpSetDialPolicy(policy)

SpecAmqpPolicy == InitAmqp /\ [][NextAmqpPolicy]_vars

\* A Dial call has taken the lock and not yet returned.
DialInProgress == call.op = "Dial" /\ call.pc \in {"attempt", "sleep"}

(***************************************************************************)
(* C34: SetDialPolicy cannot take effect while a Dial is in progress.      *)
(* From the first NextRetry of a Dial call to its return the dialPolicy    *)
(* field is changed by that call's NextRetry and ResetAttempts only, never *)
(* replaced, so the call's budget and waits are those of one policy.       *)
(***************************************************************************)
C34_PolicyFixedDuringDial ==
    [][DialInProgress =>
          /\ dialPolicy'.maxAttempts = dialPolicy.maxAttempts
          /\ dialPolicy'.curAttempt \in {0, (dialPolicy.curAttempt + 1) % CounterModulus,
                                         dialPolicy.curAttempt}
          /\ (dialPolicy'.curAttempt # dialPolicy.curAttempt =>
                 AmqpDialAttempt)]_vars


\* A step in which the backend connect operation was called: the backend
\* refused one more attempt, or opened a connection.
ConnectAttempted ==
    \/ failuresLeft' < failuresLeft
    \/ \E c \in ConnIds : backend[c] = "unused" /\ backend'[c] = "open"

Goroutines == 1..NumDialers

\* The watchdog goroutine started for connection w.
Watchdog(w) == NumDialers + w

Watchdogs == {Watchdog(w) : w \in ConnIds}

Procs == Goroutines \cup Watchdogs

\* make(chan error, k)
MakeChan(k) == [vals |-> <<>>, closed |-> FALSE, cap |-> k, rcvd |-> 0]

\* The listeners the consumers make: the odd ones unbuffered, the even ones
\* with room for one value.
ListenerCap(c) == (c + 1) % 2

\* The settings mappings handed to Config here: those that keep the endpoint.
GoSettings ==
    {params \in Settings :
        "endpoint" \in DOMAIN params => params["endpoint"] = "localhost:55672"}

\* A goroutine outside every call.
Out == [pc |-> "out", op |-> "none", listener |-> 0, reset |-> FALSE,
        endpoint |-> "", err |-> Nil, ls |-> <<>>, i |-> 0, method |-> "none",
        sub |-> 0, late |-> FALSE]

\* A watchdog that Dial has not started.
NotStarted == [Out EXCEPT !.pc = "none", !.op = "watchdog"]

\* The calls a goroutine makes.
GoCalls ==
    {[op |-> o, listener |-> 0, reset |-> FALSE, endpoint |-> ""] :
        o \in {"Dial", "Close", "NewChannel"}}
    \cup {[op |-> "NotifyClose", listener |-> c, reset |-> FALSE, endpoint |-> ""] :
             c \in NotifierChans}
    \cup {[op |-> "Config", listener |-> 0, reset |-> NeedsReset(params),
           endpoint |-> IF "endpoint" \in DOMAIN params THEN params["endpoint"] ELSE ""] :
             params \in GoSettings}

goOther == <<password, db, connectionTimeout, pool, hosts, call, wd, resetSeen>>

\* New(DialPolicy(dial.Periodic(2, 10ms))) and goroutines that have not
\* called anything yet.  failuresLeft is the number of connects the backend
\* will refuse in all.
InitGoroutines ==
    /\ dialPolicy = Periodic(2, RetryInterval)
    /\ listeners = NewNotifier
    /\ chans = [c \in NotifierChans |-> MakeChan(ListenerCap(c))]
    /\ endpoint = "localhost:55672"
    /\ connected = FALSE
    /\ conn = 0
    /\ password = ""
    /\ db = 0
    /\ connectionTimeout = 0
    /\ pool = 0
    /\ hosts = <<>>
    /\ backend = [i \in ConnIds |-> "unused"]
    /\ failuresLeft = MaxFailures
    /\ call = NoCall
    /\ wd = <<>>
    /\ crashed = "none"
    /\ mutex = [adapter |-> 0, notifier |-> 0, policy |-> 0]
    /\ dialers = [p \in Procs |-> IF p \in Goroutines THEN Out ELSE NotStarted]
    /\ resetSeen = FALSE

\* Lock returned to goroutine p.
Lock(m, name, p) == [m EXCEPT ![name] = p]

\* A mutant of Unlock: the lock is kept.
UnlockKeeps(m, name, p) == m

\* Unlock, called or deferred by the goroutine p that holds the lock.
Unlock(m, name, p) == IF m[name] = p THEN [m EXCEPT ![name] = 0] ELSE m

\* A mutant of SendCompletes: a send never waits.
SendCompletesAlways(ch) == TRUE

\* listener <- err returns once the value is in the channel's buffer or a
\* receiver has taken it.
SendCompletes(ch) == Len(ch.vals) - ch.rcvd <= ch.cap

\* Where NotifyAll's loop stands with i - 1 listeners done.
NextPc(ls, i, err) ==
    IF i > Len(ls) THEN "empty" ELSE IF err # Nil THEN "send" ELSE "close"

\* A goroutine calls a method and arrives at its first Lock().  The channel
\* handed to NotifyClose is one no value was sent on, open and not in the
\* list when the call is made.
GoCall(p, c) ==
    /\ crashed = "none"
    /\ dialers[p].pc = "out"
    /\ c.op = "NotifyClose" =>
          /\ Len(listeners) < MaxNotifierListeners
          /\ chans[c.listener] = MakeChan(ListenerCap(c.listener))
          /\ c.listener \notin Range(listeners)
    /\ c.op = "Dial" => (CurAttempt(dialPolicy) < MaxCurAttempt /\ UnusedConns # {})
    /\ dialers' = [dialers EXCEPT ![p] =
          [Out EXCEPT !.pc = IF c.op = "NotifyClose" THEN "lockN" ELSE "lockA",
                      !.op = c.op, !.listener = c.listener, !.reset = c.reset,
                      !.endpoint = c.endpoint]]
    /\ UNCHANGED <<dialPolicy, listeners, chans, endpoint, connected, conn, backend,
                   failuresLeft, crashed, mutex>>
    /\ UNCHANGED goOther

\* Dial, lines 65-75: the lock is taken; return ErrAlreadyConnected if
\* connected, else go to the first NextRetry.
GoDialLock(p) ==
    /\ crashed = "none"
    /\ dialers[p].pc = "lockA" /\ dialers[p].op = "Dial"
    /\ CanLock(mutex.adapter)
    /\ IF connected
       THEN /\ mutex' = Unlock(Lock(mutex, "adapter", p), "adapter", p)
            /\ dialers' = [dialers EXCEPT ![p] = Out]
       ELSE /\ mutex' = Lock(mutex, "adapter", p)
            /\ dialers' = [dialers EXCEPT ![p].pc = "lockP",
                                          ![p].method = "NextRetry0"]
    /\ UNCHANGED <<dialPolicy, listeners, chans, endpoint, connected, conn, backend,
                   failuresLeft, crashed>>
    /\ UNCHANGED goOther

\* A method of the policy: d.Lock() returns (policy.go lines 43, 51, 59).
GoLockP(p) ==
    /\ crashed = "none"
    /\ dialers[p].pc = "lockP"
    /\ CanLock(mutex.policy)
    /\ mutex' = Lock(mutex, "policy", p)
    /\ dialers' = [dialers EXCEPT ![p].pc = "inP"]
    /\ UNCHANGED <<dialPolicy, listeners, chans, endpoint, connected, conn, backend,
                   failuresLeft, crashed>>
    /\ UNCHANGED goOther

\* NextRetry returns, at line 75 before the loop or at line 83 after a
\* failed connect; the call at line 83 ends the loop when it reports an
\* error.
GoNextRetry(p) ==
    /\ crashed = "none"
    /\ dialers[p].pc = "inP" /\ dialers[p].method \in {"NextRetry0", "NextRetry"}
    /\ \E r \in NextRetry(dialPolicy) :
          /\ dialPolicy' = r.policy
          /\ dialers' = [dialers EXCEPT
                ![p].pc = IF dialers[p].method = "NextRetry" /\ r.err = Nil
                          THEN "sleep" ELSE "lockP",
                ![p].method = IF dialers[p].method = "NextRetry0" THEN "CurAttempt77"
                              ELSE IF r.err # Nil THEN "CurAttempt85"
                              ELSE "none"]
    /\ mutex' = Unlock(mutex, "policy", p)
    /\ UNCHANGED <<listeners, chans, endpoint, connected, conn, backend,
                   failuresLeft, crashed>>
    /\ UNCHANGED goOther

\* CurAttempt returns: at line 77 the connect follows, at line 85 Dial
\* returns ErrTimeout and its deferred Unlock runs.
GoCurAttempt(p) ==
    /\ crashed = "none"
    /\ dialers[p].pc = "inP" /\ dialers[p].method \in {"CurAttempt77", "CurAttempt85"}
    /\ IF dialers[p].method = "CurAttempt77"
       THEN /\ mutex' = Unlock(mutex, "policy", p)
            /\ dialers' = [dialers EXCEPT ![p].pc = "attempt", ![p].method = "none"]
       ELSE /\ mutex' = Unlock(Unlock(mutex, "policy", p), "adapter", p)
            /\ dialers' = [dialers EXCEPT ![p] = Out]
    /\ UNCHANGED <<dialPolicy, listeners, chans, endpoint, connected, conn, backend,
                   failuresLeft, crashed>>
    /\ UNCHANGED goOther

\* amqp.Dial(endpoint), the outcomes: the backend refuses while it has
\* refusals left, and when the connections followed here are used up.
GoConnect ==
    (IF failuresLeft > 0 \/ UnusedConns = {}
     THEN {[conn |-> h, err |-> DriverError] : h \in {0, DeadConn}}
     ELSE {})
    \cup (IF UnusedConns # {} THEN {[conn |-> NextConn, err |-> Nil]} ELSE {})

\* Dial, lines 78-92: amqp.Dial; its results are stored in s.conn and err.
GoAttempt(p) ==
    /\ crashed = "none"
    /\ dialers[p].pc = "attempt"
    /\ \E c \in GoConnect :
          /\ conn' = c.conn
          /\ IF c.err = Nil
             THEN /\ backend' = [backend EXCEPT ![c.conn] = "open"]
                  /\ connected' = TRUE
                  /\ dialers' = [dialers EXCEPT ![p].pc = "lockP",
                                                ![p].method = "ResetAttempts"]
                  /\ UNCHANGED failuresLeft
             ELSE /\ failuresLeft' = IF failuresLeft > 0 THEN failuresLeft - 1 ELSE 0
                  /\ dialers' = [dialers EXCEPT ![p].pc = "lockP",
                                                ![p].method = "NextRetry"]
                  /\ UNCHANGED <<backend, connected>>
    /\ UNCHANGED <<dialPolicy, listeners, chans, endpoint, crashed, mutex>>
    /\ UNCHANGED goOther

\* Dial, line 89: the wait is over; the loop starts again at line 77.
GoWake(p) ==
    /\ crashed = "none"
    /\ dialers[p].pc = "sleep"
    /\ dialers' = [dialers EXCEPT ![p].pc = "lockP", ![p].method = "CurAttempt77"]
    /\ UNCHANGED <<dialPolicy, listeners, chans, endpoint, connected, conn, backend,
                   failuresLeft, crashed, mutex>>
    /\ UNCHANGED goOther

\* Dial, lines 93-99: ResetAttempts returns, the watchdog goroutine of the
\* new connection is started, Dial returns nil and its deferred Unlock runs.
GoResetAttempts(p) ==
    /\ crashed = "none"
    /\ dialers[p].pc = "inP" /\ dialers[p].method = "ResetAttempts"
    /\ dialPolicy' = ResetAttempts(dialPolicy)
    /\ mutex' = Unlock(Unlock(mutex, "policy", p), "adapter", p)
    /\ dialers' = [dialers EXCEPT ![p] = Out,
                                  ![Watchdog(conn)] = [NotStarted EXCEPT !.pc = "start"]]
    /\ UNCHANGED <<listeners, chans, endpoint, connected, conn, backend,
                   failuresLeft, crashed>>
    /\ UNCHANGED goOther

\* Close, lines 104-112: the lock is taken; return if not connected, else
\* close the backend connection and go to NotifyAll(ErrConnectionClosed).
GoCloseLock(p) ==
    /\ crashed = "none"
    /\ dialers[p].pc = "lockA" /\ dialers[p].op = "Close"
    /\ CanLock(mutex.adapter)
    /\ IF ~connected
       THEN /\ mutex' = Unlock(Lock(mutex, "adapter", p), "adapter", p)
            /\ dialers' = [dialers EXCEPT ![p] = Out]
            /\ UNCHANGED backend
       ELSE /\ mutex' = Lock(mutex, "adapter", p)
            /\ backend' = ConnClose(backend, conn)
            /\ dialers' = [dialers EXCEPT ![p].pc = "lockN",
                                          ![p].err = ErrConnectionClosed]
    /\ UNCHANGED <<dialPolicy, listeners, chans, endpoint, connected, conn,
                   failuresLeft, crashed>>
    /\ UNCHANGED goOther

\* Config, lines 138-152: the lock is taken and the endpoint stored; return
\* unless a reset is needed and the adapter is connected, else close the
\* backend connection and go to NotifyAll(nil).
GoConfigLock(p) ==
    /\ crashed = "none"
    /\ dialers[p].pc = "lockA" /\ dialers[p].op = "Config"
    /\ CanLock(mutex.adapter)
    /\ endpoint' = IF dialers[p].reset THEN dialers[p].endpoint ELSE endpoint
    /\ IF dialers[p].reset /\ connected
       THEN /\ mutex' = Lock(mutex, "adapter", p)
            /\ backend' = ConnClose(backend, conn)
            /\ dialers' = [dialers EXCEPT ![p].pc = "lockN", ![p].err = Nil]
       ELSE /\ mutex' = Unlock(Lock(mutex, "adapter", p), "adapter", p)
            /\ dialers' = [dialers EXCEPT ![p] = Out]
            /\ UNCHANGED backend
    /\ UNCHANGED <<dialPolicy, listeners, chans, connected, conn, failuresLeft,
                   crashed>>
    /\ UNCHANGED goOther

\* NewChannel, lines 164-171: the lock is taken, the flag tested, the
\* driver asked for a channel when connected; the deferred Unlock runs.
GoNewChannelLock(p) ==
    /\ crashed = "none"
    /\ dialers[p].pc = "lockA" /\ dialers[p].op = "NewChannel"
    /\ CanLock(mutex.adapter)
    /\ mutex' = Unlock(Lock(mutex, "adapter", p), "adapter", p)
    /\ dialers' = [dialers EXCEPT ![p] = Out]
    /\ UNCHANGED <<dialPolicy, listeners, chans, endpoint, connected, conn, backend,
                   failuresLeft, crashed>>
    /\ UNCHANGED goOther

\* Notifier.Add and Notifier.NotifyAll: n.Lock() returns; NotifyAll
\* evaluates the range expression n.listeners.
GoLockN(p) ==
    /\ crashed = "none"
    /\ dialers[p].pc = "lockN"
    /\ CanLock(mutex.notifier)
    /\ mutex' = Lock(mutex, "notifier", p)
    /\ dialers' = IF dialers[p].op = "NotifyClose"
                  THEN [dialers EXCEPT ![p].pc = "append"]
                  ELSE [dialers EXCEPT ![p].ls = listeners, ![p].i = 1,
                                       ![p].pc = NextPc(listeners, 1, dialers[p].err)]
    /\ UNCHANGED <<dialPolicy, listeners, chans, endpoint, connected, conn, backend,
                   failuresLeft, crashed>>
    /\ UNCHANGED goOther

\* Add: the listener is appended and the deferred Unlock runs.
GoAppend(p) ==
    /\ crashed = "none"
    /\ dialers[p].pc = "append"
    /\ listeners' = Add(listeners, dialers[p].listener)
    /\ mutex' = Unlock(mutex, "notifier", p)
    /\ dialers' = [dialers EXCEPT ![p] = Out]
    /\ UNCHANGED <<dialPolicy, chans, endpoint, connected, conn, backend,
                   failuresLeft, crashed>>
    /\ UNCHANGED goOther

\* NotifyAll, listener <- err: the send begins; on a closed channel it
\* panics.
GoSend(p) ==
    /\ crashed = "none"
    /\ dialers[p].pc = "send"
    /\ LET c == dialers[p].ls[dialers[p].i]
       IN  IF chans[c].closed
           THEN /\ crashed' = "send on closed channel"
                /\ UNCHANGED <<chans, dialers>>
           ELSE /\ chans' = [chans EXCEPT ![c].vals = Append(@, dialers[p].err)]
                /\ dialers' = [dialers EXCEPT ![p].pc = "sending"]
                /\ UNCHANGED crashed
    /\ UNCHANGED <<dialPolicy, listeners, endpoint, connected, conn, backend,
                   failuresLeft, mutex>>
    /\ UNCHANGED goOther

\* NotifyAll, listener <- err: the send returns.
GoSent(p) ==
    /\ crashed = "none"
    /\ dialers[p].pc = "sending"
    /\ SendCompletes(chans[dialers[p].ls[dialers[p].i]])
    /\ dialers' = [dialers EXCEPT ![p].pc = "close"]
    /\ UNCHANGED <<dialPolicy, listeners, chans, endpoint, connected, conn, backend,
                   failuresLeft, crashed, mutex>>
    /\ UNCHANGED goOther

\* NotifyAll, close(listener): a closed channel makes it panic.
GoCloseChan(p) ==
    /\ crashed = "none"
    /\ dialers[p].pc = "close"
    /\ LET c == dialers[p].ls[dialers[p].i]
       IN  IF chans[c].closed
           THEN /\ crashed' = "close of closed channel"
                /\ UNCHANGED <<chans, dialers>>
           ELSE /\ chans' = [chans EXCEPT ![c].closed = TRUE]
                /\ dialers' = [dialers EXCEPT
                      ![p].i = @ + 1,
                      ![p].pc = NextPc(dialers[p].ls, dialers[p].i + 1, dialers[p].err)]
                /\ UNCHANGED crashed
    /\ UNCHANGED <<dialPolicy, listeners, endpoint, connected, conn, backend,
                   failuresLeft, mutex>>
    /\ UNCHANGED goOther

\* NotifyAll: the list is emptied and the deferred Unlock runs; the
\* watchdog ends, Close and Config go on.
GoEmpty(p) ==
    /\ crashed = "none"
    /\ dialers[p].pc = "empty"
    /\ listeners' = NewNotifier
    /\ mutex' = Unlock(mutex, "notifier", p)
    /\ dialers' = [dialers EXCEPT ![p].pc = IF dialers[p].op = "watchdog"
                                            THEN "done" ELSE "clear"]
    /\ UNCHANGED <<dialPolicy, chans, endpoint, connected, conn, backend,
                   failuresLeft, crashed>>
    /\ UNCHANGED goOther

\* Close, lines 114-115, and Config, lines 154-155: the handle and the flag
\* are cleared and the deferred Unlock runs.
GoClear(p) ==
    /\ crashed = "none"
    /\ dialers[p].pc = "clear"
    /\ conn' = 0
    /\ connected' = FALSE
    /\ mutex' = Unlock(mutex, "adapter", p)
    /\ dialers' = [dialers EXCEPT ![p] = Out]
    /\ UNCHANGED <<dialPolicy, listeners, chans, endpoint, backend, failuresLeft,
                   crashed>>
    /\ UNCHANGED goOther

\* watchdog, lines 176-177: read s.conn, without the lock, and subscribe to
\* its close signal.
GoWatchdogStart(q) ==
    /\ crashed = "none"
    /\ dialers[q].pc = "start"
    /\ IF conn = 0
       THEN /\ crashed' = "nil dereference"
            /\ UNCHANGED dialers
       ELSE /\ dialers' = [dialers EXCEPT ![q].pc = "waiting", ![q].sub = conn,
                                          ![q].late = ConnState(conn) # "open"]
            /\ UNCHANGED crashed
    /\ UNCHANGED <<dialPolicy, listeners, chans, endpoint, connected, conn, backend,
                   failuresLeft, mutex>>
    /\ UNCHANGED goOther

\* watchdog, lines 179-188: the close signal fires and the watchdog goes
\* to NotifyAll.
GoWatchdogFire(q) ==
    /\ crashed = "none"
    /\ dialers[q].pc = "waiting"
    /\ ConnState(dialers[q].sub) # "open"
    /\ dialers' = [dialers EXCEPT
          ![q].pc = "lockN",
          ![q].err = WatchdogSignal(CloseSignal(ConnState(dialers[q].sub),
                                                dialers[q].late))]
    /\ UNCHANGED <<dialPolicy, listeners, chans, endpoint, connected, conn, backend,
                   failuresLeft, crashed, mutex>>
    /\ UNCHANGED goOther

\* The consumer of a listener receives a value from it.
ChanReceive(c) ==
    /\ crashed = "none"
    /\ chans[c].rcvd < Len(chans[c].vals)
    /\ chans' = [chans EXCEPT ![c].rcvd = @ + 1]
    /\ UNCHANGED <<dialPolicy, listeners, endpoint, connected, conn, backend,
                   failuresLeft, crashed, mutex, dialers>>
    /\ UNCHANGED goOther

\* The steps of the calls in progress and of the consumers.
Progress ==
    \/ \E p \in Goroutines :
          \/ GoDialLock(p) \/ GoLockP(p) \/ GoNextRetry(p) \/ GoCurAttempt(p)
          \/ GoAttempt(p) \/ GoWake(p) \/ GoResetAttempts(p)
          \/ GoCloseLock(p) \/ GoConfigLock(p) \/ GoNewChannelLock(p)
          \/ GoAppend(p) \/ GoClear(p)
    \/ \E p \in Procs :
          GoLockN(p) \/ GoSend(p) \/ GoSent(p) \/ GoCloseChan(p) \/ GoEmpty(p)
    \/ \E q \in Watchdogs : GoWatchdogStart(q) \/ GoWatchdogFire(q)
    \/ \E c \in NotifierChans : ChanReceive(c)

NextGoroutines ==
    \/ \E p \in Goroutines, c \in GoCalls : GoCall(p, c)
    \/ Progress
    \/ \E c \in ConnIds : BackendLoss(c)

SpecGoroutines == InitGoroutines /\ [][NextGoroutines]_vars


\* Goroutine p is inside NotifyAll, between n.Lock() and the deferred Unlock.
InNotifyAll(p) == dialers[p].pc \in {"send", "sending", "close", "empty"}

(***************************************************************************)
(* C36: no listener is lost when Add and NotifyAll run at once.  A         *)
(* listener whose Add returns is in the list, and a listener leaves the    *)
(* list only closed, that is, notified by the NotifyAll that removes it;   *)
(* so a listener added while a NotifyAll runs stays for the next one.      *)
(***************************************************************************)
C36_NoListenerLost ==
    [][/\ \A p \in Goroutines :
             GoAppend(p) => dialers[p].listener \in Range(listeners')
       /\ \A c \in Range(listeners) :
             c \in Range(listeners') \/ chans'[c].closed]_vars

\* A NotifyClose call waits for the notifier lock while a NotifyAll that
\* has notified a listener is about to empty the list.
C36_Witness ==
    \E p \in Goroutines, q \in Procs :
       /\ dialers[p].pc = "lockN" /\ dialers[p].op = "NotifyClose"
       /\ dialers[q].pc = "empty" /\ dialers[q].ls # <<>>
       /\ mutex.notifier = q

\* The consumers of the unbuffered listeners in ls have received a value.
Received(ls) ==
    \A c \in Range(ls) :
       chans[c].cap = 0 => (chans[c].rcvd >= 1 /\ chans[c].rcvd = Len(chans[c].vals))

(***************************************************************************)
(* C37, as stated: when a NotifyAll with a non-nil error returns, the      *)
(* consumer of every listener it notified has received the error.          *)
(***************************************************************************)
C37_NotifyAllWaitsForConsumers ==
    [][\A p \in Procs :
          (GoEmpty(p) /\ dialers[p].err # Nil) =>
             \A c \in Range(dialers[p].ls) :
                chans[c].rcvd >= 1 /\ chans[c].rcvd = Len(chans[c].vals)]_vars

(***************************************************************************)
(* C37, amended: when a NotifyAll with a non-nil error returns, and when   *)
(* the Close that called it returns, the consumer of every unbuffered      *)
(* listener it notified has received the error; the goroutine holds the    *)
(* notifier lock all through NotifyAll and, in Close and Config, the       *)
(* adapter lock as well; a NotifyAll(nil) never sends.                     *)
(***************************************************************************)
C37_NotifyAllWaitsForUnbuffered ==
    /\ [](\A p \in Procs :
             /\ InNotifyAll(p) =>
                   /\ mutex.notifier = p
                   /\ dialers[p].op \in {"Close", "Config"} => mutex.adapter = p
             /\ dialers[p].pc = "clear" => mutex.adapter = p
             /\ dialers[p].err = Nil => dialers[p].pc \notin {"send", "sending"})
    /\ [][\A p \in Procs :
             /\ (GoEmpty(p) /\ dialers[p].err # Nil) => Received(dialers[p].ls)
             /\ (GoClear(p) /\ dialers[p].op = "Close") => Received(dialers[p].ls)]_vars

\* A Close has come back from NotifyAll, which notified an unbuffered
\* listener and a buffered one; the consumer of the buffered one has not
\* received.
C37_Witness ==
    \E p \in Goroutines :
       /\ dialers[p].op = "Close" /\ dialers[p].pc = "clear"
       /\ \E c \in Range(dialers[p].ls) : chans[c].cap = 0 /\ chans[c].rcvd = 1
       /\ \E c \in Range(dialers[p].ls) : chans[c].cap > 0 /\ chans[c].rcvd = 0

\* Goroutine p acquires the named lock at this step.
Acquires(p, name) == mutex[name] # p /\ mutex'[name] = p

(***************************************************************************)
(* C38: no deadlock among Dial, Close, Config, NotifyClose, NewChannel and *)
(* the watchdog, the consumers being ready to receive.  While a call is in *)
(* progress some goroutine or consumer can take a step; the adapter lock   *)
(* is acquired by a goroutine holding no lock, and the notifier lock and   *)
(* the policy lock by a goroutine holding neither of the two.              *)
(***************************************************************************)
C38_NoDeadlock ==
    /\ []((crashed = "none"
            /\ \E p \in Procs : dialers[p].pc \notin {"out", "none", "waiting", "done"})
          => ENABLED Progress)
    /\ [][\A p \in Procs :
             /\ Acquires(p, "adapter") =>
                   mutex.notifier # p /\ mutex.policy # p
             /\ (Acquires(p, "notifier") \/ Acquires(p, "policy")) =>
                   mutex.notifier # p /\ mutex.policy # p]_vars

\* A Close holds the adapter lock and the notifier lock and waits for a
\* consumer, a second call waits for the adapter lock and the watchdog
\* waits for the notifier lock.
C38_Witness ==
    \E p \in Goroutines, q \in Goroutines, w \in Watchdogs :
       /\ dialers[p].pc = "sending" /\ dialers[p].op = "Close"
       /\ ~SendCompletes(chans[dialers[p].ls[dialers[p].i]])
       /\ mutex.adapter = p /\ mutex.notifier = p
       /\ dialers[q].pc = "lockA"
       /\ dialers[w].pc = "lockN"


\* ---------------------------------------------------------------------
\* Discarded backend handles (redis adapter)
\* ---------------------------------------------------------------------

\* C39: every backend handle the adapter discards has been closed first:
\* when Close or a reset made by Config replaces or clears the pool, the
\* old pool was closed, so no open pool is left that the adapter no longer
\* refers to.
C39_DiscardedHandlesClosed ==
    /\ \A i \in PoolIds : backend[i] = "open" => i = pool
    /\ [][(pool # 0 /\ pool' # pool) => backend'[pool] = "closed"]_vars

=============================================================================
